---- MODULE Spec2Model ----
(***************************************************************************)
(* Round / prediction settlement engine of Xelma-Backend.                  *)
(*                                                                         *)
(* The database tables (Round, Prediction, User, Transaction) are the      *)
(* shared state.  Every service method is a process whose steps are the    *)
(* awaited database or gateway calls of its code: the synchronous code     *)
(* between two awaits runs atomically (single-threaded event loop), and    *)
(* other requests interleave at every await.  The local database is        *)
(* reliable; the remote contract may answer each attempt with success or   *)
(* with any failure message.                                               *)
(***************************************************************************)
EXTENDS Integers, Sequences, FiniteSets, TLC

\* ------------------------------------------------------------------ bounds
\* concurrent startRound requests
NumStarters == 2
\* concurrent submitPrediction requests
NumSubmitters == 2
\* concurrent resolveRound requests
NumResolvers == 2
\* minutes the clock may advance
MaxNow == 2
\* concurrent lockRound requests
NumLockers == 1
\* concurrent cancelRound requests
NumCancellers == 2
\* concurrent connect requests
NumConnects == 2

\* ------------------------------------------------------- program constants
\* SQL NULL of a nullable column (endPrice, payout, sorobanRoundId) and the
\* null of a local id variable
Null == 0 - 1
\* "virtualBalance" DOUBLE PRECISION NOT NULL DEFAULT 1000
InitialBalance == 1000
\* DEFAULT_RETRY_CONFIG.maxRetries
DefaultMaxRetries == 3
\* placeBet: { ...DEFAULT_RETRY_CONFIG, maxRetries: 2 }
PlaceBetMaxRetries == 2
\* getBalance: { ...DEFAULT_RETRY_CONFIG, maxRetries: 2 }
GetBalanceMaxRetries == 2
\* durationMinutes > 1440 is rejected
MaxDurationMinutes == 1440
\* durationLedgers > 10000 is rejected by the gateway
MaxDurationLedgers == 10000
\* ~5 seconds per ledger
SecondsPerLedger == 5

\* ------------------------------------------------------------ input sets
Users == {"A", "B"}
\* prices in hundredths: 100 is 1.00, 120 is 1.20
StartPrices == {0, 100}
FinalPrices == {0, 80, 100, 120}
\* 900 minutes is accepted by startRound and is 10800 ledgers
Durations == {0, 1, 900, 1441}
Modes == {"UP_DOWN", "LEGENDS"}
Amounts == {100, 150}
Sides == {"UP", "DOWN"}
\* the x-signature header: absent, a Stellar secret ("S..."), anything else
SecretKeys == {"", "SECRET", "BADKEY"}
\* keywords of classifyError that a lower-cased failure message may contain
FailureMessages ==
  { {"network"}, {"insufficient"}, {"already"}, {"invalid"}, {} }
\* one retryable and one non-retryable failure
FewFailureMessages == { {"network"}, {"already"} }
\* submitPrediction requests on round 1: each user with a stake of their own
\* and every key
Bets ==
  {[userId |-> st[1], roundId |-> 1, amount |-> st[2], side |-> "UP",
    userSecretKey |-> key] :
     st \in {<< "A", 100 >>, << "B", 150 >>}, key \in SecretKeys}

VARIABLES
  sorobanInitialized,  \* SorobanService.initialized
  rounds,              \* table Round: row i has id i
  predictions,         \* table Prediction
  users,               \* table User
  transactions,        \* table Transaction (the ledger)
  nextPredictionId,    \* ids given to Prediction rows
  txSeq,               \* transaction hashes handed out by the remote contract
  now,                 \* the wall clock (new Date()), in minutes
  sr,                  \* startRound requests
  sp,                  \* submitPrediction requests
  rs,                  \* resolveRound requests
  lk,                  \* lockRound requests
  cr,                  \* cancelRound requests
  gc,                  \* one call of a gateway operation
  authChallenge,       \* table AuthChallenge: the row of one challenge
  walletUsers,         \* table User: the wallet addresses that have a row
  cn,                  \* POST /api/auth/connect requests
  sw                   \* one autoLockExpiredRounds sweep

vars ==
  << sorobanInitialized, rounds, predictions, users, transactions,
     nextPredictionId, txSeq, now, sr, sp, rs, lk, cr, gc, authChallenge,
     walletUsers, cn, sw >>

\* the tables and requests of the authentication routes
auth == << authChallenge, walletUsers, cn >>

db == << rounds, predictions, users, transactions, nextPredictionId >>

\* ------------------------------------------------------------ error values
NoError ==
  [kind |-> "none", code |-> "", statusCode |-> 0, retryable |-> FALSE]

Ok ==
  [kind |-> "ok", code |-> "", statusCode |-> 200, retryable |-> FALSE]

RoundServiceError(code, statusCode) ==
  [kind |-> "RoundServiceError", code |-> code, statusCode |-> statusCode,
   retryable |-> FALSE]

PredictionServiceError(code, statusCode) ==
  [kind |-> "PredictionServiceError", code |-> code,
   statusCode |-> statusCode, retryable |-> FALSE]

ResolutionServiceError(code, statusCode) ==
  [kind |-> "ResolutionServiceError", code |-> code,
   statusCode |-> statusCode, retryable |-> FALSE]

BlockchainError(type, retryable) ==
  [kind |-> "BlockchainError", code |-> type, statusCode |-> 0,
   retryable |-> retryable]

\* ------------------------------------------------------------ the gateway
Includes(msg, words) == msg \cap words # {}

\* a classification under which insufficient funds is worth a retry
classifyFundsRetryable(msg) ==
  IF Includes(msg, {"timeout", "econnrefused", "enotfound", "network"})
  THEN BlockchainError("TRANSIENT", TRUE)
  ELSE IF Includes(msg, {"insufficient", "balance", "funds"})
  THEN BlockchainError("INSUFFICIENT_FUNDS", TRUE)
  ELSE BlockchainError("UNKNOWN", FALSE)

\* a classification that looks for contract text before funds text
classifyContractFirst(msg) ==
  IF Includes(msg, {"timeout", "econnrefused", "enotfound", "network"})
  THEN BlockchainError("TRANSIENT", TRUE)
  ELSE IF Includes(msg, {"alreadybet", "already", "contract"})
  THEN BlockchainError("CONTRACT_ERROR", FALSE)
  ELSE IF Includes(msg, {"insufficient", "balance", "funds"})
  THEN BlockchainError("INSUFFICIENT_FUNDS", FALSE)
  ELSE IF Includes(msg, {"invalid", "validation", "parameter"})
  THEN BlockchainError("VALIDATION", FALSE)
  ELSE BlockchainError("UNKNOWN", FALSE)

classifyError(msg) ==
  IF Includes(msg, {"timeout", "econnrefused", "enotfound", "network"})
  THEN BlockchainError("TRANSIENT", TRUE)
  ELSE IF Includes(msg, {"insufficient", "balance", "funds"})
  THEN BlockchainError("INSUFFICIENT_FUNDS", FALSE)
  ELSE IF Includes(msg, {"alreadybet", "already", "contract"})
  THEN BlockchainError("CONTRACT_ERROR", FALSE)
  ELSE IF Includes(msg, {"invalid", "validation", "parameter"})
  THEN BlockchainError("VALIDATION", FALSE)
  ELSE BlockchainError("UNKNOWN", FALSE)

\* what the remote contract answers to one attempt: success, or a failure
\* with one of the messages `msgs`
Outcomes(msgs) ==
  {[ok |-> TRUE, msg |-> {}]} \cup {[ok |-> FALSE, msg |-> m] : m \in msgs}

\* the locals of one retryWithBackoff call: `over` is
\* Date.now() - startTime > config.timeoutMs, `calls` counts operation()
GwStart ==
  [attempt |-> 0, lastError |-> NoError, over |-> FALSE, calls |-> 0]

\* One iteration of the retry loop: the timeout check, the attempt, and on a
\* retryable failure the backoff sleep, during which the deadline may pass.
retryWithBackoff(gw, maxRetries, outcome, elapses) ==
  IF gw.over
  THEN [status |-> "throw", error |-> BlockchainError("TIMEOUT", FALSE),
        gw |-> gw]
  ELSE LET called == [gw EXCEPT !.calls = @ + 1] IN
       IF outcome.ok
       THEN [status |-> "return", error |-> NoError, gw |-> called]
       ELSE LET lastError == classifyError(outcome.msg) IN
            IF ~lastError.retryable \/ gw.attempt = maxRetries - 1
            THEN [status |-> "throw", error |-> lastError,
                  gw |-> [called EXCEPT !.lastError = lastError]]
            ELSE [status |-> "retry", error |-> lastError,
                  gw |-> [called EXCEPT !.lastError = lastError,
                                        !.attempt = @ + 1,
                                        !.over = elapses]]

priceToStroopsError(price) ==
  IF price <= 0 THEN BlockchainError("VALIDATION", FALSE) ELSE NoError

\* SorobanService.createRound before its retry loop
createRoundPrecheck(startPrice, durationLedgers, mode) ==
  IF ~sorobanInitialized THEN BlockchainError("VALIDATION", FALSE)
  ELSE IF mode # 0 /\ mode # 1 THEN BlockchainError("VALIDATION", FALSE)
  ELSE IF mode = 1 THEN BlockchainError("VALIDATION", FALSE)
  ELSE IF durationLedgers <= 0 \/ durationLedgers > MaxDurationLedgers
  THEN BlockchainError("VALIDATION", FALSE)
  ELSE priceToStroopsError(startPrice)

\* ------------------------------------------------- one gateway operation
GatewayOperations == {"createRound", "placeBet", "resolveRound"}

\* getBalance's `return 0`
ZeroBalance ==
  [kind |-> "return", code |-> "0", statusCode |-> 0, retryable |-> FALSE]

\* the catch around the operation's retryWithBackoff call: createRound,
\* placeBet and resolveRound log and re-throw, getBalance logs and returns 0
operationCatch(operation, error) ==
  IF operation = "getBalance" THEN ZeroBalance ELSE error

\* an attempt budget of one: no retry
SingleAttempt(operation) == 1

\* an attempt budget one above the configured one
OneMoreAttempt(operation) ==
  IF operation = "placeBet" THEN PlaceBetMaxRetries + 1
  ELSE DefaultMaxRetries + 1

\* config.maxRetries of the operation's retryWithBackoff call
budgetOf(operation) ==
  IF operation = "placeBet" THEN PlaceBetMaxRetries
  ELSE IF operation = "getBalance" THEN GetBalanceMaxRetries
  ELSE DefaultMaxRetries

\* `attempts` lists what each operation() of the call produced, "ok" or the
\* type its failure was classified as; `message` holds the keywords of the
\* failure message classifyError was last given; `late` says that the
\* deadline passed while the attempt that ended the call was in flight
GcIdle ==
  [pc |-> "idle", operation |-> "createRound", gw |-> GwStart,
   attempts |-> << >>, message |-> {}, late |-> FALSE, result |-> NoError]

\* the operation is called with valid arguments: ensureInitialized, then the
\* retry loop starts
GC_Call ==
  /\ gc.pc = "idle"
  /\ \E operation \in GatewayOperations :
       gc' = IF sorobanInitialized
             THEN [gc EXCEPT !.operation = operation, !.pc = "run"]
             ELSE [gc EXCEPT !.operation = operation, !.pc = "done",
                             !.result = BlockchainError("VALIDATION",
                                                        FALSE)]
  /\ UNCHANGED << sorobanInitialized, db, txSeq, now, sr, sp, rs, lk, cr, auth, sw >>

\* one iteration of the operation's retry loop
GC_Attempt(msgs) ==
  /\ gc.pc = "run"
  /\ \E outcome \in Outcomes(msgs), elapses \in BOOLEAN :
       LET r == retryWithBackoff(gc.gw, budgetOf(gc.operation), outcome,
                                 elapses)
           made == r.gw.calls > gc.gw.calls
           g == [gc EXCEPT
                   !.gw = r.gw,
                   !.attempts =
                      IF made
                      THEN Append(@, IF outcome.ok THEN "ok"
                                     ELSE classifyError(outcome.msg).code)
                      ELSE @,
                   !.message =
                      IF made /\ ~outcome.ok THEN outcome.msg ELSE @]
       IN gc' = IF r.status = "return"
                THEN [g EXCEPT !.pc = "done", !.result = Ok,
                               !.late = elapses]
                ELSE IF r.status = "throw"
                THEN [g EXCEPT !.pc = "done",
                               !.result = operationCatch(g.operation,
                                                         r.error),
                               !.late = made /\ elapses]
                ELSE g
  /\ UNCHANGED << sorobanInitialized, db, txSeq, now, sr, sp, rs, lk, cr, auth, sw >>

\* the calls of the four operations, with valid and invalid arguments
GatewayCalls ==
  [operation : GatewayOperations \cup {"getBalance"},
   price : {0, 100}, durationLedgers : {0, 12}, mode : {0, 1},
   userAddress : {"GA", "XA"}, userSecretKey : {"SECRET", "BAD"},
   amount : {0, 100}]

\* userAddress.startsWith("G"), on the addresses of GatewayCalls
startsWithG(userAddress) == userAddress = "GA"

\* SorobanService.placeBet before its retry loop
placeBetCheck(call) ==
  IF ~sorobanInitialized THEN BlockchainError("VALIDATION", FALSE)
  ELSE IF call.mode = 1 THEN BlockchainError("VALIDATION", FALSE)
  ELSE IF ~startsWithG(call.userAddress)
  THEN BlockchainError("VALIDATION", FALSE)
  ELSE IF call.userSecretKey # "SECRET"
  THEN BlockchainError("VALIDATION", FALSE)
  ELSE IF call.amount * 10000000 <= 0
  THEN BlockchainError("VALIDATION", FALSE)
  ELSE NoError

\* SorobanService.resolveRound before its retry loop
resolveRoundCallCheck(call) ==
  IF ~sorobanInitialized THEN BlockchainError("VALIDATION", FALSE)
  ELSE IF call.mode = 1 THEN BlockchainError("VALIDATION", FALSE)
  ELSE priceToStroopsError(call.price)

\* SorobanService.getBalance before its retry loop
getBalanceCheck(call) ==
  IF ~sorobanInitialized THEN ZeroBalance
  ELSE IF ~startsWithG(call.userAddress) THEN ZeroBalance
  ELSE NoError

\* what the operation does with its arguments before its retry loop
operationCheck(call) ==
  IF call.operation = "createRound"
  THEN createRoundPrecheck(call.price, call.durationLedgers, call.mode)
  ELSE IF call.operation = "placeBet" THEN placeBetCheck(call)
  ELSE IF call.operation = "resolveRound" THEN resolveRoundCallCheck(call)
  ELSE getBalanceCheck(call)

\* an operation is called: its checks, then the retry loop starts
GC_CallWith ==
  /\ gc.pc = "idle"
  /\ \E call \in GatewayCalls :
       LET e == operationCheck(call) IN
       gc' = IF e = NoError
             THEN [gc EXCEPT !.operation = call.operation, !.pc = "run"]
             ELSE [gc EXCEPT !.operation = call.operation, !.pc = "done",
                             !.result = e]
  /\ UNCHANGED << sorobanInitialized, db, txSeq, now, sr, sp, rs, lk, cr, auth, sw >>

\* ------------------------------------------------------------- startRound
Starters == 1 .. NumStarters

SrIdle ==
  [pc |-> "idle", mode |-> "UP_DOWN", startPrice |-> 0,
   durationMinutes |-> 0, dbRoundId |-> Null, blockchainTxHash |-> Null,
   gw |-> GwStart, gatewayCalls |-> 0, thrown |-> NoError,
   result |-> NoError]

\* prisma.round.findFirst({ where: { status: ACTIVE } })
existingActiveRound ==
  \E i \in DOMAIN rounds : rounds[i].status = "ACTIVE"

\* a validation that lets every mode through
startRoundAnyMode(mode, startPrice, durationMinutes) ==
  IF startPrice <= 0
  THEN RoundServiceError("INVALID_START_PRICE", 400)
  ELSE IF durationMinutes <= 0 \/ durationMinutes > MaxDurationMinutes
  THEN RoundServiceError("INVALID_DURATION", 400)
  ELSE IF existingActiveRound
  THEN RoundServiceError("ACTIVE_ROUND_EXISTS", 409)
  ELSE NoError

startRoundValidation(mode, startPrice, durationMinutes) ==
  IF startPrice <= 0
  THEN RoundServiceError("INVALID_START_PRICE", 400)
  ELSE IF durationMinutes <= 0 \/ durationMinutes > MaxDurationMinutes
  THEN RoundServiceError("INVALID_DURATION", 400)
  ELSE IF mode = "LEGENDS"
  THEN RoundServiceError("LEGENDS_NOT_IMPLEMENTED", 501)
  ELSE IF existingActiveRound
  THEN RoundServiceError("ACTIVE_ROUND_EXISTS", 409)
  ELSE NoError

\* input validation and the existing-round query
SR_Check(p) ==
  /\ sr[p].pc = "idle"
  /\ \E mode \in Modes, startPrice \in StartPrices,
        durationMinutes \in Durations :
       LET e == startRoundValidation(mode, startPrice, durationMinutes)
           s == [sr[p] EXCEPT !.mode = mode, !.startPrice = startPrice,
                              !.durationMinutes = durationMinutes]
       IN sr' = [sr EXCEPT ![p] =
                   IF e = NoError
                   THEN [s EXCEPT !.pc = "create"]
                   ELSE [s EXCEPT !.pc = "done", !.result = e]]
  /\ UNCHANGED << sorobanInitialized, db, txSeq, now, sp, rs, lk, cr, gc, auth, sw >>

NewRound(mode, startPrice, endTime) ==
  [mode |-> mode, status |-> "PENDING", startPrice |-> startPrice,
   endPrice |-> Null, endTime |-> endTime, poolUp |-> 0, poolDown |-> 0,
   sorobanRoundId |-> Null]

\* prisma.round.create, then the synchronous start of the gateway call
SR_Create(p) ==
  /\ sr[p].pc = "create"
  /\ LET s == sr[p]
         gameMode == IF s.mode = "UP_DOWN" THEN 0 ELSE 1
         id == Len(rounds) + 1
         durationLedgers == (s.durationMinutes * 60) \div SecondsPerLedger
         e == createRoundPrecheck(s.startPrice, durationLedgers, gameMode)
         created == [s EXCEPT !.dbRoundId = id]
     IN /\ rounds' = Append(rounds,
              NewRound(IF gameMode = 0 THEN "UP_DOWN" ELSE "LEGENDS",
                       s.startPrice, now + s.durationMinutes))
        /\ sr' = [sr EXCEPT ![p] =
              IF s.mode = "UP_DOWN" /\ sorobanInitialized
              THEN IF e = NoError
                   THEN [created EXCEPT !.pc = "remote", !.gw = GwStart,
                                        !.gatewayCalls = @ + 1]
                   ELSE [created EXCEPT !.pc = "rollback", !.thrown = e,
                                        !.gatewayCalls = @ + 1]
              ELSE [created EXCEPT !.pc = "activate"]]
  /\ UNCHANGED << sorobanInitialized, predictions, users, transactions,
                  nextPredictionId, txSeq, now, sp, rs, lk, cr, gc, auth, sw >>

\* one attempt of sorobanService.createRound's retry loop
SR_Remote(p, msgs) ==
  /\ sr[p].pc = "remote"
  /\ \E outcome \in Outcomes(msgs), elapses \in BOOLEAN :
       LET r == retryWithBackoff(sr[p].gw, DefaultMaxRetries, outcome,
                                 elapses)
           s == [sr[p] EXCEPT !.gw = r.gw]
       IN IF r.status = "return"
          THEN /\ txSeq' = txSeq + 1
               /\ sr' = [sr EXCEPT ![p] =
                    [s EXCEPT !.pc = "activate",
                              !.blockchainTxHash = txSeq + 1]]
          ELSE /\ txSeq' = txSeq
               /\ sr' = [sr EXCEPT ![p] =
                    IF r.status = "throw"
                    THEN [s EXCEPT !.pc = "rollback", !.thrown = r.error]
                    ELSE s]
  /\ UNCHANGED << sorobanInitialized, db, now, sp, rs, lk, cr, gc, auth, sw >>

\* a rollback that leaves the round as it was created
RollbackLeavesPending == "PENDING"

\* a rollback that activates the round it should cancel
RollbackActivates == "ACTIVE"

\* rollbackRound: data: { status: 'CANCELLED' }
RollbackStatus == "CANCELLED"

\* what startRound's outer catch re-throws
startRoundRethrow(error) ==
  IF error.kind \in {"RoundServiceError", "BlockchainError"}
  THEN error
  ELSE RoundServiceError("ROUND_START_FAILED", 500)

\* rollbackRound, then `throw blockchainError`
SR_Rollback(p) ==
  /\ sr[p].pc = "rollback"
  /\ rounds' = [rounds EXCEPT ![sr[p].dbRoundId].status = RollbackStatus]
  /\ sr' = [sr EXCEPT ![p].pc = "done",
                      ![p].result = startRoundRethrow(sr[p].thrown)]
  /\ UNCHANGED << sorobanInitialized, predictions, users, transactions,
                  nextPredictionId, txSeq, now, sp, rs, lk, cr, gc, auth, sw >>

\* a return that skips the update to ACTIVE
SR_ReturnPending(p) ==
  /\ sr[p].pc = "activate"
  /\ sr' = [sr EXCEPT ![p].pc = "done", ![p].result = Ok]
  /\ UNCHANGED << sorobanInitialized, db, txSeq, now, sp, rs, lk, cr, gc, auth, sw >>

\* prisma.round.update({ status: ACTIVE, sorobanRoundId })
SR_Activate(p) ==
  /\ sr[p].pc = "activate"
  /\ rounds' = [rounds EXCEPT
        ![sr[p].dbRoundId].status = "ACTIVE",
        ![sr[p].dbRoundId].sorobanRoundId = sr[p].blockchainTxHash]
  /\ sr' = [sr EXCEPT ![p].pc = "done", ![p].result = Ok]
  /\ UNCHANGED << sorobanInitialized, predictions, users, transactions,
                  nextPredictionId, txSeq, now, sp, rs, lk, cr, gc, auth, sw >>

StartRound(p, msgs) ==
  \/ SR_Check(p)
  \/ SR_Create(p)
  \/ SR_Remote(p, msgs)
  \/ SR_Rollback(p)
  \/ SR_Activate(p)

\* the awaited steps of a startRound call that has passed its checks: the
\* event loop runs each continuation once its promise settles, and every
\* remote attempt is answered
startRoundContinues(p, msgs) ==
  \/ SR_Create(p)
  \/ SR_Remote(p, msgs)
  \/ SR_Rollback(p)
  \/ SR_Activate(p)

\* ------------------------------------------------------- submitPrediction
Submitters == 1 .. NumSubmitters

SpIdle ==
  [pc |-> "idle", userId |-> "A", roundId |-> Null, amount |-> 0,
   side |-> "UP", userSecretKey |-> "", createdPredictionId |-> Null,
   gw |-> GwStart, gatewayCalls |-> 0, thrown |-> NoError,
   result |-> NoError]

\* the round lookup and the status and end-time checks
\* a round check that looks at the status and not at the clock
submitStatusCheck(roundId) ==
  IF roundId \notin DOMAIN rounds
  THEN PredictionServiceError("ROUND_NOT_FOUND", 404)
  ELSE IF rounds[roundId].status # "ACTIVE"
  THEN PredictionServiceError("ROUND_NOT_ACTIVE", 400)
  ELSE NoError

submitRoundCheck(roundId) ==
  IF roundId \notin DOMAIN rounds
  THEN PredictionServiceError("ROUND_NOT_FOUND", 404)
  ELSE IF rounds[roundId].status # "ACTIVE"
  THEN PredictionServiceError("ROUND_NOT_ACTIVE", 400)
  ELSE IF now > rounds[roundId].endTime
  THEN PredictionServiceError("ROUND_ENDED", 400)
  ELSE NoError

\* prisma.round.findUnique and the checks on the round
SP_FindRound(p, bets) ==
  /\ sp[p].pc = "idle"
  /\ \E bet \in bets :
       LET e == submitRoundCheck(bet.roundId)
           s == [sp[p] EXCEPT !.userId = bet.userId,
                              !.roundId = bet.roundId,
                              !.amount = bet.amount, !.side = bet.side,
                              !.userSecretKey = bet.userSecretKey]
       IN sp' = [sp EXCEPT ![p] =
                   IF e = NoError
                   THEN [s EXCEPT !.pc = "findPrediction"]
                   ELSE [s EXCEPT !.pc = "done", !.result = e]]
  /\ UNCHANGED << sorobanInitialized, db, txSeq, now, sr, rs, lk, cr, gc, auth, sw >>

\* prisma.prediction.findUnique({ roundId_userId })
existingPrediction(roundId, userId) ==
  \E pr \in predictions : pr.roundId = roundId /\ pr.userId = userId

SP_FindPrediction(p) ==
  /\ sp[p].pc = "findPrediction"
  /\ sp' = [sp EXCEPT ![p] =
       IF existingPrediction(sp[p].roundId, sp[p].userId)
       THEN [@ EXCEPT !.pc = "done",
                      !.result = PredictionServiceError("PREDICTION_EXISTS",
                                                        409)]
       ELSE [@ EXCEPT !.pc = "findUser"]]
  /\ UNCHANGED << sorobanInitialized, db, txSeq, now, sr, rs, lk, cr, gc, auth, sw >>

\* `Insufficient balance. Required: ${amount}, Available: ${balance}`
InsufficientBalance(required, available) ==
  [kind |-> "PredictionServiceError", code |-> "INSUFFICIENT_BALANCE",
   statusCode |-> 400, retryable |-> FALSE, required |-> required,
   available |-> available]

\* a balance check that also turns down a stake of the whole balance
submitUserCheckStrict(userId, roundId, amount) ==
  IF users[userId].virtualBalance <= amount
  THEN InsufficientBalance(amount, users[userId].virtualBalance)
  ELSE NoError

\* the user lookup, the balance check and the mode dispatch
submitUserCheck(userId, roundId, amount) ==
  IF userId \notin DOMAIN users
  THEN PredictionServiceError("USER_NOT_FOUND", 404)
  ELSE IF users[userId].virtualBalance < amount
  THEN InsufficientBalance(amount, users[userId].virtualBalance)
  ELSE IF rounds[roundId].mode # "UP_DOWN"
  THEN PredictionServiceError("INVALID_GAME_MODE", 400)
  ELSE NoError

SP_FindUser(p) ==
  /\ sp[p].pc = "findUser"
  /\ LET e == submitUserCheck(sp[p].userId, sp[p].roundId, sp[p].amount)
     IN sp' = [sp EXCEPT ![p] =
          IF e = NoError
          THEN [@ EXCEPT !.pc = "create"]
          ELSE [@ EXCEPT !.pc = "done", !.result = e]]
  /\ UNCHANGED << sorobanInitialized, db, txSeq, now, sr, rs, lk, cr, gc, auth, sw >>

\* a Prediction table without its unique index
NoUniqueIndex(roundId, userId) == FALSE

\* CREATE UNIQUE INDEX "Prediction_roundId_userId_key"
UniqueViolation(roundId, userId) ==
  \E pr \in predictions : pr.roundId = roundId /\ pr.userId = userId

NewPrediction(id, roundId, userId, amount, side) ==
  [id |-> id, roundId |-> roundId, userId |-> userId, amount |-> amount,
   side |-> side, won |-> "null", payout |-> Null]

\* SorobanService.placeBet before its retry loop; every stored wallet
\* address is a Stellar address ("G...")
placeBetPrecheck(userSecretKey, amountInStroops, mode) ==
  IF ~sorobanInitialized THEN BlockchainError("VALIDATION", FALSE)
  ELSE IF mode = 1 THEN BlockchainError("VALIDATION", FALSE)
  ELSE IF userSecretKey # "SECRET" THEN BlockchainError("VALIDATION", FALSE)
  ELSE IF amountInStroops <= 0 THEN BlockchainError("VALIDATION", FALSE)
  ELSE NoError

\* what submitPrediction's outer catch re-throws
submitRethrow(error) ==
  IF error.kind \in {"PredictionServiceError", "BlockchainError"}
  THEN error
  ELSE PredictionServiceError("PREDICTION_FAILED", 500)

\* a create step that goes on to the debit without the placeBet call
SP_CreateThenDebit(p) ==
  /\ sp[p].pc = "create"
  /\ ~UniqueViolation(sp[p].roundId, sp[p].userId)
  /\ predictions' = predictions \cup
       {NewPrediction(nextPredictionId, sp[p].roundId, sp[p].userId,
                      sp[p].amount, sp[p].side)}
  /\ nextPredictionId' = nextPredictionId + 1
  /\ sp' = [sp EXCEPT ![p].createdPredictionId = nextPredictionId,
                      ![p].pc = "debit"]
  /\ UNCHANGED << sorobanInitialized, rounds, users, transactions, txSeq,
                  now, sr, rs, lk, cr, gc, auth, sw >>

\* prisma.prediction.create, then the synchronous start of the gateway call
SP_Create(p) ==
  /\ sp[p].pc = "create"
  /\ LET s == sp[p] IN
     IF UniqueViolation(s.roundId, s.userId)
     THEN /\ sp' = [sp EXCEPT ![p] =
                [s EXCEPT !.pc = "done",
                          !.thrown = [NoError EXCEPT !.kind = "PrismaError",
                                                     !.code = "P2002"],
                          !.result = submitRethrow(
                             [NoError EXCEPT !.kind = "PrismaError",
                                             !.code = "P2002"])]]
          /\ UNCHANGED << predictions, nextPredictionId >>
     ELSE LET created == [s EXCEPT !.createdPredictionId = nextPredictionId]
              e == placeBetPrecheck(s.userSecretKey, s.amount * 10000000, 0)
          IN /\ predictions' = predictions \cup
                  {NewPrediction(nextPredictionId, s.roundId, s.userId,
                                 s.amount, s.side)}
             /\ nextPredictionId' = nextPredictionId + 1
             /\ sp' = [sp EXCEPT ![p] =
                  IF sorobanInitialized /\ s.userSecretKey # ""
                  THEN IF e = NoError
                       THEN [created EXCEPT !.pc = "remote", !.gw = GwStart,
                                            !.gatewayCalls = @ + 1]
                       ELSE [created EXCEPT !.pc = "delete", !.thrown = e,
                                            !.gatewayCalls = @ + 1]
                  ELSE [created EXCEPT !.pc = "debit"]]
  /\ UNCHANGED << sorobanInitialized, rounds, users, transactions, txSeq,
                  now, sr, rs, lk, cr, gc, auth, sw >>

\* one attempt of sorobanService.placeBet's retry loop
SP_Remote(p, msgs) ==
  /\ sp[p].pc = "remote"
  /\ \E outcome \in Outcomes(msgs), elapses \in BOOLEAN :
       LET r == retryWithBackoff(sp[p].gw, PlaceBetMaxRetries, outcome,
                                 elapses)
           s == [sp[p] EXCEPT !.gw = r.gw]
       IN IF r.status = "return"
          THEN /\ txSeq' = txSeq + 1
               /\ sp' = [sp EXCEPT ![p] = [s EXCEPT !.pc = "update"]]
          ELSE /\ txSeq' = txSeq
               /\ sp' = [sp EXCEPT ![p] =
                    IF r.status = "throw"
                    THEN [s EXCEPT !.pc = "delete", !.thrown = r.error]
                    ELSE s]
  /\ UNCHANGED << sorobanInitialized, db, now, sr, rs, lk, cr, gc, auth, sw >>

\* prisma.prediction.update({ data: {} }) after the bet was placed
SP_Update(p) ==
  /\ sp[p].pc = "update"
  /\ sp' = [sp EXCEPT ![p].pc = "debit"]
  /\ UNCHANGED << sorobanInitialized, db, txSeq, now, sr, rs, lk, cr, gc, auth, sw >>

\* a rollback that deletes nothing
KeepPrediction(id) == predictions

\* prisma.prediction.delete({ where: { id } })
deletePrediction(id) == {pr \in predictions : pr.id # id}

\* the rollback of the inner catch, then `throw blockchainError`
SP_Delete(p) ==
  /\ sp[p].pc = "delete"
  /\ predictions' = deletePrediction(sp[p].createdPredictionId)
  /\ sp' = [sp EXCEPT ![p].pc = "done",
                      ![p].result = submitRethrow(sp[p].thrown)]
  /\ UNCHANGED << sorobanInitialized, rounds, users, transactions,
                  nextPredictionId, txSeq, now, sr, rs, lk, cr, gc, auth, sw >>

\* a ledger row that drops the sign of the amount
UnsignedEntry(userId, amount, type, roundId) ==
  [userId |-> userId, amount |-> IF amount < 0 THEN 0 - amount ELSE amount,
   type |-> type, roundId |-> roundId]

LedgerEntry(userId, amount, type, roundId) ==
  [userId |-> userId, amount |-> amount, type |-> type, roundId |-> roundId]

\* prisma.$transaction([user.update, round.update, transaction.create])
SP_Debit(p) ==
  /\ sp[p].pc = "debit"
  /\ LET s == sp[p] IN
     /\ users' = [users EXCEPT ![s.userId].virtualBalance = @ - s.amount]
     /\ rounds' = [rounds EXCEPT
          ![s.roundId].poolUp = IF s.side = "UP" THEN @ + s.amount ELSE @,
          ![s.roundId].poolDown =
             IF s.side = "DOWN" THEN @ + s.amount ELSE @]
     /\ transactions' = Append(transactions,
          LedgerEntry(s.userId, 0 - s.amount, "LOSS", s.roundId))
     /\ sp' = [sp EXCEPT ![p].pc = "done", ![p].result = Ok]
  /\ UNCHANGED << sorobanInitialized, predictions, nextPredictionId, txSeq,
                  now, sr, rs, lk, cr, gc, auth, sw >>

SubmitPrediction(p, bets, msgs) ==
  \/ SP_FindRound(p, bets)
  \/ SP_FindPrediction(p)
  \/ SP_FindUser(p)
  \/ SP_Create(p)
  \/ SP_Remote(p, msgs)
  \/ SP_Update(p)
  \/ SP_Delete(p)
  \/ SP_Debit(p)

\* ----------------------------------------------------------- resolveRound
Resolvers == 1 .. NumResolvers

\* JavaScript values, for the comparisons whose operands differ in type
JsString(s) == [type |-> "string", value |-> s]

JsNumber(n) == [type |-> "number", value |-> n]

\* a === b: equal types and equal values
StrictEquals(a, b) == a.type = b.type /\ a.value = b.value

\* round.mode === n, where round.mode is read from the "GameMode" enum column
modeIs(round, n) == StrictEquals(JsString(round.mode), JsNumber(n))

RsIdle ==
  [pc |-> "idle", roundId |-> Null, finalPrice |-> 0,
   round |-> NewRound("UP_DOWN", 0, 0), roundPredictions |-> << >>,
   writes |-> << >>, gw |-> GwStart, gatewayCalls |-> 0,
   swallowed |-> NoError, blockchainTxHash |-> Null, result |-> NoError]

\* a status check under which every round may be resolved again
AnyStatusResolvable(status) == NoError

\* the checks on round.status
resolveStatusCheck(status) ==
  IF status = "RESOLVED"
  THEN ResolutionServiceError("ALREADY_RESOLVED", 400)
  ELSE IF status # "LOCKED" /\ status # "ACTIVE"
  THEN ResolutionServiceError("INVALID_ROUND_STATUS", 400)
  ELSE NoError

resolveRoundCheck(roundId, finalPrice) ==
  IF finalPrice <= 0
  THEN ResolutionServiceError("INVALID_FINAL_PRICE", 400)
  ELSE IF roundId \notin DOMAIN rounds
  THEN ResolutionServiceError("ROUND_NOT_FOUND", 404)
  ELSE resolveStatusCheck(rounds[roundId].status)

RECURSIVE InIdOrder(_)
\* include: { predictions }: the rows of the round, by id
InIdOrder(prs) ==
  IF prs = {} THEN << >>
  ELSE LET first == CHOOSE pr \in prs : \A other \in prs : pr.id <= other.id
       IN << first >> \o InIdOrder(prs \ {first})

\* prisma.prediction.update({ where: { id }, data: { won, payout } })
PredictionUpdate(id, won, payout) ==
  [table |-> "prediction", id |-> id, userId |-> "", won |-> won,
   payout |-> payout, virtualBalance |-> 0, wins |-> 0, streak |-> "keep"]

\* prisma.user.update({ where: { id: userId }, data })
UserUpdate(userId, virtualBalance, wins, streak) ==
  [table |-> "user", id |-> Null, userId |-> userId, won |-> "null",
   payout |-> Null, virtualBalance |-> virtualBalance, wins |-> wins,
   streak |-> streak]

\* amount + (amount / winningPool) * losingPool; the stakes divide evenly
winnerPayout(amount, winningPool, losingPool) ==
  amount + (amount * losingPool) \div winningPool

RECURSIVE resolveUpDownWrites(_, _, _, _)
\* the loop over round.predictions: two awaited updates per prediction
resolveUpDownWrites(prs, winningSide, winningPool, losingPool) ==
  IF prs = << >> THEN << >>
  ELSE LET prediction == Head(prs)
           payout == winnerPayout(prediction.amount, winningPool,
                                  losingPool)
       IN (IF winningSide = "null"
           THEN << PredictionUpdate(prediction.id, "null",
                                    prediction.amount),
                   UserUpdate(prediction.userId, prediction.amount, 0,
                              "keep") >>
           ELSE IF prediction.side = winningSide
           THEN << PredictionUpdate(prediction.id, "true", payout),
                   UserUpdate(prediction.userId, payout, 1, "increment") >>
           ELSE << PredictionUpdate(prediction.id, "false", 0),
                   UserUpdate(prediction.userId, 0, 0, "reset") >>)
          \o resolveUpDownWrites(Tail(prs), winningSide, winningPool,
                                 losingPool)

\* the database writes resolveUpDownRound awaits, in order
resolveUpDownRound(round, prs, finalPrice) ==
  LET winningSide == IF finalPrice > round.startPrice THEN "UP"
                     ELSE IF finalPrice < round.startPrice THEN "DOWN"
                     ELSE "null"
      winningPool == IF winningSide = "UP" THEN round.poolUp
                     ELSE round.poolDown
      losingPool == IF winningSide = "UP" THEN round.poolDown
                    ELSE round.poolUp
  IN IF finalPrice = round.startPrice
     THEN resolveUpDownWrites(prs, "null", 0, 0)
     ELSE IF winningPool = 0 THEN << >>
     ELSE resolveUpDownWrites(prs, winningSide, winningPool, losingPool)

\* SorobanService.resolveRound before its retry loop
resolveRoundPrecheck(finalPrice, mode) ==
  IF ~sorobanInitialized THEN BlockchainError("VALIDATION", FALSE)
  ELSE IF StrictEquals(mode, JsNumber(1))
  THEN BlockchainError("VALIDATION", FALSE)
  ELSE priceToStroopsError(finalPrice)

\* where resolveRound goes once the gateway call is over
afterRemote(s) == IF s.writes = << >> THEN "update" ELSE "settle"

\* the argument checks and prisma.round.findUnique with its predictions,
\* the status checks, and the synchronous start of the gateway call
RS_FindRound(p) ==
  /\ rs[p].pc = "idle"
  /\ \E roundId \in 1 .. (Len(rounds) + 1), finalPrice \in FinalPrices :
       LET e == resolveRoundCheck(roundId, finalPrice)
           called == [rs[p] EXCEPT !.roundId = roundId,
                                   !.finalPrice = finalPrice]
       IN rs' = [rs EXCEPT ![p] =
            IF e # NoError
            THEN [called EXCEPT !.pc = "done", !.result = e]
            ELSE LET round == rounds[roundId]
                     prs == InIdOrder({pr \in predictions :
                                         pr.roundId = roundId})
                     read == [called EXCEPT
                                !.round = round, !.roundPredictions = prs,
                                !.writes =
                                   IF modeIs(round, 0)
                                   THEN resolveUpDownRound(round, prs,
                                                           finalPrice)
                                   ELSE << >>]
                     g == resolveRoundPrecheck(finalPrice,
                                               JsString(round.mode))
                 IN IF modeIs(round, 0) /\ sorobanInitialized
                    THEN IF g = NoError
                         THEN [read EXCEPT !.pc = "remote", !.gw = GwStart,
                                           !.gatewayCalls = @ + 1]
                         ELSE [read EXCEPT !.pc = afterRemote(read),
                                           !.swallowed = g,
                                           !.gatewayCalls = @ + 1]
                    ELSE [read EXCEPT !.pc = afterRemote(read)]]
  /\ UNCHANGED << sorobanInitialized, db, txSeq, now, sr, sp, lk, cr, gc, auth, sw >>

\* one awaited prediction.update or user.update of resolveUpDownRound
applyWrite(w) ==
  IF w.table = "prediction"
  THEN /\ predictions' =
            {IF pr.id = w.id
             THEN [pr EXCEPT !.won = w.won, !.payout = w.payout]
             ELSE pr : pr \in predictions}
       /\ users' = users
  ELSE /\ users' = [users EXCEPT
            ![w.userId].virtualBalance = @ + w.virtualBalance,
            ![w.userId].wins = @ + w.wins,
            ![w.userId].streak = IF w.streak = "increment" THEN @ + 1
                                 ELSE IF w.streak = "reset" THEN 0
                                 ELSE @]
       /\ predictions' = predictions

\* what resolveRound's outer catch re-throws
resolveRethrow(error) ==
  IF error.kind \in {"ResolutionServiceError", "BlockchainError"}
  THEN error
  ELSE ResolutionServiceError("RESOLUTION_FAILED", 500)

\* The next awaited call of resolveRound after its read: one attempt of
\* sorobanService.resolveRound's retry loop, whose failure is caught and
\* logged; one write of resolveUpDownRound; or the final
\* prisma.round.update({ status: RESOLVED, endPrice: finalPrice }).  The
\* educational tip written afterwards touches no modelled column.
RS_Step(p, msgs) ==
  /\ rs[p].pc \in {"remote", "settle", "update"}
  /\ LET s == rs[p] IN
     IF s.pc = "remote"
     THEN \E outcome \in Outcomes(msgs), elapses \in BOOLEAN :
            LET r == retryWithBackoff(s.gw, DefaultMaxRetries, outcome,
                                      elapses)
                t == [s EXCEPT !.gw = r.gw]
            IN /\ txSeq' = IF r.status = "return" THEN txSeq + 1 ELSE txSeq
               /\ rs' = [rs EXCEPT ![p] =
                    IF r.status = "return"
                    THEN [t EXCEPT !.pc = afterRemote(s),
                                   !.blockchainTxHash = txSeq + 1]
                    ELSE IF r.status = "throw"
                    THEN [t EXCEPT !.pc = afterRemote(s),
                                   !.swallowed = r.error]
                    ELSE t]
               /\ UNCHANGED db
     ELSE IF s.pc = "settle"
     THEN LET w == Head(s.writes) IN
          IF w.table = "prediction" /\
             \A pr \in predictions : pr.id # w.id
          THEN /\ rs' = [rs EXCEPT ![p] =
                    [s EXCEPT !.pc = "done",
                              !.result = resolveRethrow(
                                 [NoError EXCEPT !.kind = "PrismaError",
                                                 !.code = "P2025"])]]
               /\ UNCHANGED << db, txSeq >>
          ELSE /\ applyWrite(w)
               /\ rs' = [rs EXCEPT ![p] =
                    [s EXCEPT !.writes = Tail(@),
                              !.pc = IF Tail(s.writes) = << >>
                                     THEN "update" ELSE "settle"]]
               /\ UNCHANGED << rounds, transactions, nextPredictionId,
                               txSeq >>
     ELSE /\ rounds' = [rounds EXCEPT ![s.roundId].status = "RESOLVED",
                                      ![s.roundId].endPrice = s.finalPrice]
          /\ rs' = [rs EXCEPT ![p] = [s EXCEPT !.pc = "done",
                                               !.result = Ok]]
          /\ UNCHANGED << predictions, users, transactions,
                          nextPredictionId, txSeq >>
  /\ UNCHANGED << sorobanInitialized, now, sr, sp, lk, cr, gc, auth, sw >>

ResolveRound(p, msgs) ==
  \/ RS_FindRound(p)
  \/ RS_Step(p, msgs)

\* -------------------------------------------------------------- lockRound
Lockers == 1 .. NumLockers

LkIdle == [pc |-> "idle", roundId |-> Null, result |-> NoError]

\* the lookup and the status check of lockRound
lockRoundCheck(roundId) ==
  IF roundId \notin DOMAIN rounds
  THEN RoundServiceError("ROUND_NOT_FOUND", 404)
  ELSE IF rounds[roundId].status # "ACTIVE"
  THEN RoundServiceError("INVALID_ROUND_STATUS", 400)
  ELSE NoError

\* prisma.round.findUnique and the status check
LK_Find(p) ==
  /\ lk[p].pc = "idle"
  /\ \E roundId \in 1 .. (Len(rounds) + 1) :
       LET e == lockRoundCheck(roundId) IN
       lk' = [lk EXCEPT ![p] =
                IF e = NoError
                THEN [@ EXCEPT !.roundId = roundId, !.pc = "update"]
                ELSE [@ EXCEPT !.roundId = roundId, !.pc = "done",
                               !.result = e]]
  /\ UNCHANGED << sorobanInitialized, db, txSeq, now, sr, sp, rs, cr, gc, auth, sw >>

\* prisma.round.update({ data: { status: LOCKED } })
LK_Update(p) ==
  /\ lk[p].pc = "update"
  /\ rounds' = [rounds EXCEPT ![lk[p].roundId].status = "LOCKED"]
  /\ lk' = [lk EXCEPT ![p].pc = "done", ![p].result = Ok]
  /\ UNCHANGED << sorobanInitialized, predictions, users, transactions,
                  nextPredictionId, txSeq, now, sr, sp, rs, cr, gc, auth, sw >>

LockRound(p) ==
  \/ LK_Find(p)
  \/ LK_Update(p)

\* ------------------------------------------------------------ cancelRound
Cancellers == 1 .. NumCancellers

CrIdle ==
  [pc |-> "idle", roundId |-> Null, roundPredictions |-> << >>,
   result |-> NoError]

\* a status check under which every round may be cancelled again
AnyStatusCancellable(status) == NoError

\* the check on round.status
cancelStatusCheck(status) ==
  IF status = "RESOLVED" \/ status = "CANCELLED"
  THEN RoundServiceError("INVALID_ROUND_STATUS", 400)
  ELSE NoError

cancelRoundCheck(roundId) ==
  IF roundId \notin DOMAIN rounds
  THEN RoundServiceError("ROUND_NOT_FOUND", 404)
  ELSE cancelStatusCheck(rounds[roundId].status)

\* prisma.round.findUnique({ include: { predictions: true } }) and the check
CR_Find(p) ==
  /\ cr[p].pc = "idle"
  /\ \E roundId \in 1 .. (Len(rounds) + 1) :
       LET e == cancelRoundCheck(roundId) IN
       cr' = [cr EXCEPT ![p] =
                IF e = NoError
                THEN [@ EXCEPT !.roundId = roundId, !.pc = "refund",
                               !.roundPredictions =
                                  InIdOrder({pr \in predictions :
                                               pr.roundId = roundId})]
                ELSE [@ EXCEPT !.roundId = roundId, !.pc = "done",
                               !.result = e]]
  /\ UNCHANGED << sorobanInitialized, db, txSeq, now, sr, sp, rs, lk, gc, auth, sw >>

RECURSIVE refundUsers(_, _)
\* tx.user.update({ virtualBalance: { increment: prediction.amount } }) for
\* every prediction read
refundUsers(us, prs) ==
  IF prs = << >> THEN us
  ELSE refundUsers(
         [us EXCEPT ![Head(prs).userId].virtualBalance =
                       @ + Head(prs).amount],
         Tail(prs))

\* tx.transaction.create({ type: "BONUS" }) for every prediction read
refundEntries(prs, roundId) ==
  [i \in 1 .. Len(prs) |->
     LedgerEntry(prs[i].userId, prs[i].amount, "BONUS", roundId)]

\* prisma.$transaction: the status update and the refunds commit together
CR_Refund(p) ==
  /\ cr[p].pc = "refund"
  /\ rounds' = [rounds EXCEPT ![cr[p].roundId].status = "CANCELLED"]
  /\ users' = refundUsers(users, cr[p].roundPredictions)
  /\ transactions' =
       transactions \o refundEntries(cr[p].roundPredictions, cr[p].roundId)
  /\ cr' = [cr EXCEPT ![p].pc = "done", ![p].result = Ok]
  /\ UNCHANGED << sorobanInitialized, predictions, nextPredictionId, txSeq,
                  now, sr, sp, rs, lk, gc, auth, sw >>

CancelRound(p) ==
  \/ CR_Find(p)
  \/ CR_Refund(p)

\* -------------------------------------------------- autoLockExpiredRounds
\* the two copies of the method: the loop that awaits lockRound round after
\* round, and the fan-out that catches each lockRound's failure
SweepVariants == {"sequential", "allSettled"}

\* `expiredRounds` is the result of findMany; locks[i] is where the lockRound
\* call for expiredRounds[i] stands: "find", "update", "locked", "failed", or
\* "skipped" when the sweep ended before calling it
SwIdle ==
  [pc |-> "idle", variant |-> "sequential", expiredRounds |-> << >>,
   locks |-> << >>]

\* prisma.round.findMany({ status: ACTIVE, endTime: { lte: now } })
findExpiredRounds ==
  InIdOrder({[id |-> i] : i \in {j \in DOMAIN rounds :
                                   /\ rounds[j].status = "ACTIVE"
                                   /\ rounds[j].endTime <= now}})

SW_Find ==
  /\ sw.pc = "idle"
  /\ \E variant \in SweepVariants :
       LET found == findExpiredRounds IN
       sw' = [sw EXCEPT !.variant = variant,
                        !.expiredRounds = [i \in DOMAIN found |-> found[i].id],
                        !.locks = [i \in DOMAIN found |-> "find"],
                        !.pc = IF found = << >> THEN "done" ELSE "lock"]
  /\ UNCHANGED << sorobanInitialized, db, txSeq, now, sr, sp, rs, lk, cr, gc,
                  auth >>

\* the lockRound call for expiredRounds[i] may run: every call of the fan-out,
\* and in the loop the call whose predecessors have returned
Running(i) ==
  \/ sw.variant = "allSettled"
  \/ \A j \in 1 .. (i - 1) : sw.locks[j] = "locked"

\* the sweep returns once no lockRound call is left to wait for
sweepPc(locks) ==
  IF \E i \in DOMAIN locks : locks[i] \in {"find", "update"}
  THEN "lock" ELSE "done"

\* lockRound's findUnique and status check; a failure is caught and logged by
\* the call's own catch in the fan-out, and by the catch around the loop in
\* the sequential copy, which ends the sweep
SW_LockFind(i) ==
  /\ sw.pc = "lock"
  /\ i \in DOMAIN sw.locks
  /\ sw.locks[i] = "find"
  /\ Running(i)
  /\ LET e == lockRoundCheck(sw.expiredRounds[i])
         locks == IF e = NoError
                  THEN [sw.locks EXCEPT ![i] = "update"]
                  ELSE IF sw.variant = "allSettled"
                  THEN [sw.locks EXCEPT ![i] = "failed"]
                  ELSE [j \in DOMAIN sw.locks |->
                          IF j = i THEN "failed"
                          ELSE IF j > i THEN "skipped"
                          ELSE sw.locks[j]]
     IN sw' = [sw EXCEPT !.locks = locks, !.pc = sweepPc(locks)]
  /\ UNCHANGED << sorobanInitialized, db, txSeq, now, sr, sp, rs, lk, cr, gc,
                  auth >>

\* lockRound's prisma.round.update({ status: LOCKED })
SW_LockUpdate(i) ==
  /\ sw.pc = "lock"
  /\ i \in DOMAIN sw.locks
  /\ sw.locks[i] = "update"
  /\ rounds' = [rounds EXCEPT ![sw.expiredRounds[i]].status = "LOCKED"]
  /\ LET locks == [sw.locks EXCEPT ![i] = "locked"]
     IN sw' = [sw EXCEPT !.locks = locks, !.pc = sweepPc(locks)]
  /\ UNCHANGED << sorobanInitialized, predictions, users, transactions,
                  nextPredictionId, txSeq, now, sr, sp, rs, lk, cr, gc,
                  auth >>

AutoLockExpiredRounds ==
  \/ SW_Find
  \/ \E i \in 1 .. 2 : SW_LockFind(i)
  \/ \E i \in 1 .. 2 : SW_LockUpdate(i)

\* ------------------------------------------------- POST /api/auth/connect
Connects == 1 .. NumConnects

\* no AuthChallenge row
NoChallenge ==
  [exists |-> FALSE, challenge |-> "", walletAddress |-> "", expiresAt |-> 0,
   isUsed |-> FALSE, linked |-> FALSE]

\* the row POST /api/auth/challenge stores for wallet GA
IssuedChallenge ==
  [exists |-> TRUE, challenge |-> "issued", walletAddress |-> "GA",
   expiresAt |-> 1, isUsed |-> FALSE, linked |-> FALSE]

\* request bodies: the wallet, the challenge text and a signature that
\* verifySignature accepts ("signed") or not ("forged")
ConnectBodies ==
  [walletAddress : {"GA", "GB"}, challenge : {"issued", "unknown"},
   signature : {"signed", "forged"}]

Response(status, message) == [status |-> status, message |-> message]

CnIdle ==
  [pc |-> "idle", walletAddress |-> "", challenge |-> "", signature |-> "",
   user |-> FALSE, response |-> Response(0, "")]

\* the catch block of the handler
ConnectFailed == Response(500, "Failed to authenticate wallet")

\* if (authChallenge.isUsed)
challengeUsed(row) == row.isUsed

\* the checks on the row read by prisma.authChallenge.findUnique
connectChallengeCheck(body) ==
  IF ~authChallenge.exists \/ authChallenge.challenge # body.challenge
  THEN Response(401, "Invalid or expired challenge")
  ELSE IF authChallenge.walletAddress # body.walletAddress
  THEN Response(401, "Challenge does not match wallet address")
  ELSE IF now > authChallenge.expiresAt
  THEN Response(401, "Challenge has expired. Please request a new one.")
  ELSE IF challengeUsed(authChallenge)
  THEN Response(401, "Challenge has already been used")
  ELSE Response(200, "")

\* prisma.authChallenge.findUnique and the checks up to the replay check
CN_Find(p) ==
  /\ cn[p].pc = "idle"
  /\ \E body \in ConnectBodies :
       LET e == connectChallengeCheck(body)
           c == [cn[p] EXCEPT !.walletAddress = body.walletAddress,
                              !.challenge = body.challenge,
                              !.signature = body.signature]
       IN cn' = [cn EXCEPT ![p] =
                   IF e.status = 200 THEN [c EXCEPT !.pc = "verify"]
                   ELSE IF e.message =
                           "Challenge has expired. Please request a new one."
                   THEN [c EXCEPT !.pc = "expire", !.response = e]
                   ELSE [c EXCEPT !.pc = "done", !.response = e]]
  /\ UNCHANGED << sorobanInitialized, db, txSeq, now, sr, sp, rs, lk, cr, gc,
                  authChallenge, walletUsers, sw >>

\* prisma.authChallenge.delete of the expired row
CN_Expire(p) ==
  /\ cn[p].pc = "expire"
  /\ IF authChallenge.exists
     THEN /\ authChallenge' = NoChallenge
          /\ cn' = [cn EXCEPT ![p].pc = "done"]
     ELSE /\ cn' = [cn EXCEPT ![p].pc = "done", ![p].response = ConnectFailed]
          /\ UNCHANGED authChallenge
  /\ UNCHANGED << sorobanInitialized, db, txSeq, now, sr, sp, rs, lk, cr, gc,
                  walletUsers, sw >>

\* await verifySignature(walletAddress, challenge, signature)
CN_Verify(p) ==
  /\ cn[p].pc = "verify"
  /\ cn' = [cn EXCEPT ![p] =
       IF cn[p].signature = "signed"
       THEN [@ EXCEPT !.pc = "markUsed"]
       ELSE [@ EXCEPT !.pc = "done",
                      !.response = Response(401, "Invalid signature")]]
  /\ UNCHANGED << sorobanInitialized, db, txSeq, now, sr, sp, rs, lk, cr, gc,
                  authChallenge, walletUsers, sw >>

\* prisma.authChallenge.update({ isUsed: true, usedAt })
CN_MarkUsed(p) ==
  /\ cn[p].pc = "markUsed"
  /\ IF authChallenge.exists
     THEN /\ authChallenge' = [authChallenge EXCEPT !.isUsed = TRUE]
          /\ cn' = [cn EXCEPT ![p].pc = "findUser"]
     ELSE /\ cn' = [cn EXCEPT ![p].pc = "done", ![p].response = ConnectFailed]
          /\ UNCHANGED authChallenge
  /\ UNCHANGED << sorobanInitialized, db, txSeq, now, sr, sp, rs, lk, cr, gc,
                  walletUsers, sw >>

\* prisma.user.findUnique({ where: { walletAddress } })
CN_FindUser(p) ==
  /\ cn[p].pc = "findUser"
  /\ cn' = [cn EXCEPT ![p].pc = "saveUser",
                      ![p].user = cn[p].walletAddress \in walletUsers]
  /\ UNCHANGED << sorobanInitialized, db, txSeq, now, sr, sp, rs, lk, cr, gc,
                  authChallenge, walletUsers, sw >>

\* prisma.user.create, which the unique walletAddress may refuse, or
\* prisma.user.update
CN_SaveUser(p) ==
  /\ cn[p].pc = "saveUser"
  /\ IF ~cn[p].user /\ cn[p].walletAddress \in walletUsers
     THEN /\ cn' = [cn EXCEPT ![p].pc = "done", ![p].response = ConnectFailed]
          /\ UNCHANGED walletUsers
     ELSE /\ walletUsers' = walletUsers \cup {cn[p].walletAddress}
          /\ cn' = [cn EXCEPT ![p].pc = "link"]
  /\ UNCHANGED << sorobanInitialized, db, txSeq, now, sr, sp, rs, lk, cr, gc,
                  authChallenge, sw >>

\* prisma.authChallenge.update({ userId }), generateToken, the clean-up of
\* challenges used more than 24 hours ago, and the response with the token
CN_Link(p) ==
  /\ cn[p].pc = "link"
  /\ IF authChallenge.exists
     THEN /\ authChallenge' = [authChallenge EXCEPT !.linked = TRUE]
          /\ cn' = [cn EXCEPT ![p].pc = "done",
                              ![p].response = Response(200, "token")]
     ELSE /\ cn' = [cn EXCEPT ![p].pc = "done", ![p].response = ConnectFailed]
          /\ UNCHANGED authChallenge
  /\ UNCHANGED << sorobanInitialized, db, txSeq, now, sr, sp, rs, lk, cr, gc,
                  walletUsers, sw >>

Connect(p) ==
  \/ CN_Find(p)
  \/ CN_Expire(p)
  \/ CN_Verify(p)
  \/ CN_MarkUsed(p)
  \/ CN_FindUser(p)
  \/ CN_SaveUser(p)
  \/ CN_Link(p)

\* ------------------------------------------------------------------- Init
Tables ==
  /\ predictions = {}
  /\ users = [u \in Users |->
       [virtualBalance |-> InitialBalance, wins |-> 0, streak |-> 0]]
  /\ transactions = << >>
  /\ nextPredictionId = 1
  /\ now = 0

\* no request has been made
Handlers ==
  /\ sr = [p \in Starters |-> SrIdle]
  /\ sp = [p \in Submitters |-> SpIdle]
  /\ rs = [p \in Resolvers |-> RsIdle]
  /\ lk = [p \in Lockers |-> LkIdle]
  /\ cr = [p \in Cancellers |-> CrIdle]
  /\ gc = GcIdle
  /\ cn = [p \in Connects |-> CnIdle]
  /\ sw = SwIdle

\* no request has been made and no challenge issued
Requests ==
  /\ Handlers
  /\ authChallenge = NoChallenge
  /\ walletUsers = {}

\* the server after construction, on a database holding the users only
Init ==
  /\ sorobanInitialized \in BOOLEAN
  /\ rounds = << >>
  /\ txSeq = 0
  /\ Tables
  /\ Requests

\* the server once startRound("UP_DOWN", 1.00, 1) has returned its round
InitActive ==
  /\ sorobanInitialized \in BOOLEAN
  /\ rounds =
       << [NewRound("UP_DOWN", 100, 1) EXCEPT
             !.status = "ACTIVE",
             !.sorobanRoundId = IF sorobanInitialized THEN 1 ELSE Null] >>
  /\ txSeq = IF sorobanInitialized THEN 1 ELSE 0
  /\ Tables
  /\ Requests

\* what one user staked on round 1: nothing, or an amount on a side
Stakes == {[amount |-> 0, side |-> "UP"]} \cup [amount : Amounts, side : Sides]

RECURSIVE BetsPlaced(_, _, _)
\* the Prediction rows of those of the users `us` who staked, ids from `id`
BetsPlaced(book, us, id) ==
  IF us = << >> THEN {}
  ELSE IF book[Head(us)].amount = 0
  THEN BetsPlaced(book, Tail(us), id)
  ELSE {NewPrediction(id, 1, Head(us), book[Head(us)].amount,
                      book[Head(us)].side)}
       \cup BetsPlaced(book, Tail(us), id + 1)

PoolOf(prs, side) ==
  LET RECURSIVE Total(_)
      Total(ps) == IF ps = {} THEN 0
                   ELSE LET pr == CHOOSE x \in ps : TRUE
                        IN pr.amount + Total(ps \ {pr})
  IN Total({pr \in prs : pr.side = side})

\* the server once startRound("UP_DOWN", 1.00, 1) has returned its round and
\* the submitPrediction calls of the users who staked on it have returned
InitBets ==
  /\ sorobanInitialized \in BOOLEAN
  /\ txSeq = IF sorobanInitialized THEN 1 ELSE 0
  /\ \E book \in [Users -> Stakes] :
       LET prs == BetsPlaced(book, << "A", "B" >>, 1) IN
       /\ predictions = prs
       /\ rounds =
            << [NewRound("UP_DOWN", 100, 1) EXCEPT
                  !.status = "ACTIVE",
                  !.sorobanRoundId = IF sorobanInitialized THEN 1 ELSE Null,
                  !.poolUp = PoolOf(prs, "UP"),
                  !.poolDown = PoolOf(prs, "DOWN")] >>
       /\ users = [u \in Users |->
            [virtualBalance |-> InitialBalance - book[u].amount,
             wins |-> 0, streak |-> 0]]
       /\ transactions =
            [i \in 1 .. Cardinality(prs) |->
               LET pr == CHOOSE x \in prs : x.id = i
               IN LedgerEntry(pr.userId, 0 - pr.amount, "LOSS", 1)]
       /\ nextPredictionId = Cardinality(prs) + 1
  /\ now = 0
  /\ Requests

\* time passes
Tick ==
  /\ now < MaxNow
  /\ now' = now + 1
  /\ UNCHANGED << sorobanInitialized, db, txSeq, sr, sp, rs, lk, cr, gc, auth, sw >>

\* concurrent startRound requests only
NextStart == \E p \in Starters : StartRound(p, FailureMessages)

SpecStart == Init /\ [][NextStart]_vars

\* two startRound requests, each call's continuations scheduled fairly
NextStartFair ==
  \/ StartRound(1, FailureMessages)
  \/ StartRound(2, FailureMessages)

SpecStartFair ==
  /\ Init
  /\ [][NextStartFair]_vars
  /\ WF_vars(startRoundContinues(1, FailureMessages))
  /\ WF_vars(startRoundContinues(2, FailureMessages))

\* concurrent submitPrediction requests on a started round
NextBet == \E p \in Submitters : SubmitPrediction(p, Bets, FewFailureMessages)

SpecBet == InitActive /\ [][NextBet]_vars

\* concurrent resolveRound requests on a round the users have staked on
NextSettle == \E p \in Resolvers : ResolveRound(p, FewFailureMessages)

SpecSettle == InitBets /\ [][NextSettle]_vars

\* one gateway operation called once, the remote contract answering each
\* attempt with success or with any failure
NextGateway ==
  \/ GC_Call
  \/ GC_Attempt(FailureMessages)

SpecGateway == Init /\ [][NextGateway]_vars

\* keywords a failure message may contain, and one word of no class
ClassifyKeywords ==
  {"network", "balance", "already", "invalid", "parameter", "other"}

\* the failure messages made of these words
ClassifyMessages == SUBSET ClassifyKeywords

\* one gateway operation whose attempts fail with any of these messages
NextClassify ==
  \/ GC_Call
  \/ GC_Attempt(ClassifyMessages)

SpecClassify == Init /\ [][NextClassify]_vars

\* one call of any of the four operations, with any arguments
NextOperations ==
  \/ GC_CallWith
  \/ GC_Attempt(FailureMessages)

SpecOperations == Init /\ [][NextOperations]_vars

\* A staked 100 UP and B staked 150 DOWN
StakedBook ==
  [u \in Users |-> IF u = "A" THEN [amount |-> 100, side |-> "UP"]
                   ELSE [amount |-> 150, side |-> "DOWN"]]

\* the server once round 1 is ACTIVE and both users have staked on it
InitStaked ==
  /\ InitBets
  /\ predictions = BetsPlaced(StakedBook, << "A", "B" >>, 1)

\* the end of a round: lockRound and cancelRound requests next to one
\* resolveRound request
NextLife ==
  \/ \E p \in Lockers : LockRound(p)
  \/ \E p \in Cancellers : CancelRound(p)
  \/ ResolveRound(1, FewFailureMessages)

SpecLife == InitStaked /\ [][NextLife]_vars

\* cancelRound requests next to one lockRound request and to one startRound
\* request, which can start round 2 once round 1 is no longer ACTIVE
NextCancel ==
  \/ \E p \in Cancellers : CancelRound(p)
  \/ LockRound(1)
  \/ StartRound(1, FewFailureMessages)

\* the server once both users have staked on round 1, with the round still
\* ACTIVE or after resolveRound(1, 1.20) has returned it: that call writes the
\* status and the end price only
InitCancel ==
  /\ sorobanInitialized \in BOOLEAN
  /\ txSeq = IF sorobanInitialized THEN 1 ELSE 0
  /\ LET prs == BetsPlaced(StakedBook, << "A", "B" >>, 1) IN
     /\ predictions = prs
     /\ \E resolved \in BOOLEAN :
          rounds =
            << [NewRound("UP_DOWN", 100, 1) EXCEPT
                  !.status = IF resolved THEN "RESOLVED" ELSE "ACTIVE",
                  !.endPrice = IF resolved THEN 120 ELSE Null,
                  !.sorobanRoundId = IF sorobanInitialized THEN 1 ELSE Null,
                  !.poolUp = PoolOf(prs, "UP"),
                  !.poolDown = PoolOf(prs, "DOWN")] >>
     /\ users = [u \in Users |->
          [virtualBalance |-> InitialBalance - StakedBook[u].amount,
           wins |-> 0, streak |-> 0]]
     /\ transactions =
          [i \in 1 .. Cardinality(prs) |->
             LET pr == CHOOSE x \in prs : x.id = i
             IN LedgerEntry(pr.userId, 0 - pr.amount, "LOSS", 1)]
     /\ nextPredictionId = Cardinality(prs) + 1
  /\ now = 0
  /\ Requests

SpecCancel == InitCancel /\ [][NextCancel]_vars

\* submitPrediction requests on round 2: A stakes 100 on UP, B 150 on DOWN,
\* with every key
FrameBets ==
  {[userId |-> st[1], roundId |-> 2, amount |-> st[2], side |-> st[3],
    userSecretKey |-> key] :
     st \in {<< "A", 100, "UP" >>, << "B", 150, "DOWN" >>},
     key \in SecretKeys}

\* the server once a first round has been cancelled and startRound("UP_DOWN",
\* 1.00, 1) has returned round 2
InitFrame ==
  /\ sorobanInitialized \in BOOLEAN
  /\ rounds =
       << [NewRound("UP_DOWN", 100, 1) EXCEPT !.status = "CANCELLED"],
          [NewRound("UP_DOWN", 100, 1) EXCEPT
             !.status = "ACTIVE",
             !.sorobanRoundId = IF sorobanInitialized THEN 1 ELSE Null] >>
  /\ txSeq = IF sorobanInitialized THEN 1 ELSE 0
  /\ Tables
  /\ Requests

NextFrame ==
  \E p \in Submitters : SubmitPrediction(p, FrameBets, FewFailureMessages)

SpecFrame == InitFrame /\ [][NextFrame]_vars

\* submitPrediction requests with a key, on round 1 and on a round 2 that
\* does not exist
WindowBets ==
  {[userId |-> st[1], roundId |-> roundId, amount |-> st[2], side |-> "UP",
    userSecretKey |-> "SECRET"] :
     st \in {<< "A", 100 >>, << "B", 150 >>}, roundId \in {1, 2}}

\* one submitPrediction request while time passes and round 1 is locked
NextWindow ==
  \/ SubmitPrediction(1, WindowBets, FewFailureMessages)
  \/ LockRound(1)
  \/ Tick

SpecWindow == InitActive /\ [][NextWindow]_vars

\* A staked 900 on UP and B 850 on DOWN
SpentBook ==
  [u \in Users |-> IF u = "A" THEN [amount |-> 900, side |-> "UP"]
                   ELSE [amount |-> 850, side |-> "DOWN"]]

\* the server once both users have staked most of their balance on round 1,
\* resolveRound(1, 1.20) has returned it (that call writes the status and the
\* end price only) and startRound("UP_DOWN", 1.00, 1) has returned round 2
InitFunds ==
  /\ sorobanInitialized \in BOOLEAN
  /\ txSeq = IF sorobanInitialized THEN 2 ELSE 0
  /\ LET prs == BetsPlaced(SpentBook, << "A", "B" >>, 1) IN
     /\ predictions = prs
     /\ rounds =
          << [NewRound("UP_DOWN", 100, 0) EXCEPT
                !.status = "RESOLVED",
                !.endPrice = 120,
                !.sorobanRoundId = IF sorobanInitialized THEN 1 ELSE Null,
                !.poolUp = PoolOf(prs, "UP"),
                !.poolDown = PoolOf(prs, "DOWN")],
             [NewRound("UP_DOWN", 100, 1) EXCEPT
                !.status = "ACTIVE",
                !.sorobanRoundId = IF sorobanInitialized THEN 2 ELSE Null] >>
     /\ users = [u \in Users |->
          [virtualBalance |-> InitialBalance - SpentBook[u].amount,
           wins |-> 0, streak |-> 0]]
     /\ transactions =
          [i \in 1 .. Cardinality(prs) |->
             LET pr == CHOOSE x \in prs : x.id = i
             IN LedgerEntry(pr.userId, 0 - pr.amount, "LOSS", 1)]
     /\ nextPredictionId = Cardinality(prs) + 1
  /\ now = 0
  /\ Requests

\* submitPrediction requests on round 2: A stakes the whole balance of 100,
\* B one unit more than the balance of 150
FundsBets ==
  {[userId |-> st[1], roundId |-> 2, amount |-> st[2], side |-> "UP",
    userSecretKey |-> "SECRET"] :
     st \in {<< "A", 100 >>, << "B", 151 >>}}

NextFunds ==
  \E p \in Submitters : SubmitPrediction(p, FundsBets, FewFailureMessages)

SpecFunds == InitFunds /\ [][NextFunds]_vars

\* the server of InitFunds once a second startRound("UP_DOWN", 1.00, 1) call
\* has returned round 3 as well
InitOverdraft ==
  /\ sorobanInitialized \in BOOLEAN
  /\ txSeq = IF sorobanInitialized THEN 3 ELSE 0
  /\ LET prs == BetsPlaced(SpentBook, << "A", "B" >>, 1) IN
     /\ predictions = prs
     /\ rounds =
          << [NewRound("UP_DOWN", 100, 0) EXCEPT
                !.status = "RESOLVED",
                !.endPrice = 120,
                !.sorobanRoundId = IF sorobanInitialized THEN 1 ELSE Null,
                !.poolUp = PoolOf(prs, "UP"),
                !.poolDown = PoolOf(prs, "DOWN")],
             [NewRound("UP_DOWN", 100, 1) EXCEPT
                !.status = "ACTIVE",
                !.sorobanRoundId = IF sorobanInitialized THEN 2 ELSE Null],
             [NewRound("UP_DOWN", 100, 1) EXCEPT
                !.status = "ACTIVE",
                !.sorobanRoundId = IF sorobanInitialized THEN 3 ELSE Null] >>
     /\ users = [u \in Users |->
          [virtualBalance |-> InitialBalance - SpentBook[u].amount,
           wins |-> 0, streak |-> 0]]
     /\ transactions =
          [i \in 1 .. Cardinality(prs) |->
             LET pr == CHOOSE x \in prs : x.id = i
             IN LedgerEntry(pr.userId, 0 - pr.amount, "LOSS", 1)]
     /\ nextPredictionId = Cardinality(prs) + 1
  /\ now = 0
  /\ Requests

\* submitPrediction requests of A, who holds 100: the whole balance on round 2
\* and the whole balance on round 3
OverdraftBets ==
  {[userId |-> "A", roundId |-> roundId, amount |-> 100, side |-> "UP",
    userSecretKey |-> key] :
     roundId \in {2, 3}, key \in {"", "SECRET"}}

NextOverdraft ==
  \E p \in Submitters :
    SubmitPrediction(p, OverdraftBets, FewFailureMessages)

SpecOverdraft == InitOverdraft /\ [][NextOverdraft]_vars

\* POST /api/predictions/submit requests that authenticateUser attached to
\* user A: the body names A, names B, or names no user
SubmitRequests ==
  {[user |-> "A",
    body |-> [roundId |-> 1, userId |-> u, amount |-> 100, side |-> "UP"],
    signature |-> key] :
     u \in {"A", "B", ""}, key \in {"", "SECRET"}}

\* the validation of the request body in the route handler
submitRouteValidation(body) ==
  IF body.roundId = Null THEN [status |-> 400, error |-> "Round ID is required"]
  ELSE IF body.userId = "" THEN [status |-> 400, error |-> "User ID is required"]
  ELSE IF body.amount <= 0 THEN [status |-> 400, error |-> "Invalid amount"]
  ELSE IF body.side = ""
  THEN [status |-> 400,
        error |-> "Either side (UP/DOWN) or priceRange must be provided"]
  ELSE [status |-> 200, error |-> ""]

\* the arguments the route handler passes to predictionService.submitPrediction
submitRouteCall(request) ==
  [userId |-> request.body.userId, roundId |-> request.body.roundId,
   amount |-> request.body.amount, side |-> request.body.side,
   userSecretKey |-> request.signature]

\* the service calls the route makes for the requests it does not turn down
RouteCalls(requests) ==
  {submitRouteCall(request) :
     request \in {r \in requests : submitRouteValidation(r.body).status = 200}}

\* the service calls made for SubmitRequests
RouteBets == RouteCalls(SubmitRequests)

NextRoute ==
  \E p \in Submitters : SubmitPrediction(p, RouteBets, FewFailureMessages)

SpecRoute == InitActive /\ [][NextRoute]_vars

\* the server once POST /api/auth/challenge has issued a challenge to wallet
\* GA, which has connected before or not
InitConnect ==
  /\ sorobanInitialized = FALSE
  /\ rounds = << >>
  /\ txSeq = 0
  /\ Tables
  /\ Handlers
  /\ authChallenge = IssuedChallenge
  /\ walletUsers \in {{}, {"GA"}}

\* concurrent connect requests while time passes
NextConnect ==
  \/ \E p \in Connects : Connect(p)
  \/ Tick

SpecConnect == InitConnect /\ [][NextConnect]_vars

\* the server once two concurrent startRound calls have both activated their
\* round: round 1 ends at minute 1, round 2 at minute 2
InitSweep ==
  /\ sorobanInitialized = FALSE
  /\ rounds = << [NewRound("UP_DOWN", 100, 1) EXCEPT !.status = "ACTIVE"],
                 [NewRound("UP_DOWN", 100, 2) EXCEPT !.status = "ACTIVE"] >>
  /\ txSeq = 0
  /\ Tables
  /\ Requests

\* one sweep while time passes and a cancelRound request is served
NextSweep ==
  \/ AutoLockExpiredRounds
  \/ CancelRound(1)
  \/ Tick

SpecSweep == InitSweep /\ [][NextSweep]_vars

\* one submitPrediction request on round 1 while a cancelRound and a
\* lockRound request are served
NextRefund ==
  \/ SubmitPrediction(1, Bets, FewFailureMessages)
  \/ CancelRound(1)
  \/ LockRound(1)

SpecRefund == InitActive /\ [][NextRefund]_vars

\* submitPrediction requests that fail a local check next to one that
\* passes them all: on round 1 (RESOLVED), on round 2, on a round 3 that does
\* not exist until it is started, by a user the table does not hold, and
\* with a stake above the balance
PolicyBets ==
  {[userId |-> b[1], roundId |-> b[2], amount |-> b[3], side |-> "UP",
    userSecretKey |-> "SECRET"] :
     b \in {<< "A", 2, 100 >>, << "A", 1, 100 >>, << "A", 3, 100 >>,
            << "C", 2, 100 >>, << "B", 2, 151 >>}}

\* submitPrediction and startRound requests while time passes and round 2
\* is locked
NextPolicy ==
  \/ SubmitPrediction(1, PolicyBets, FewFailureMessages)
  \/ SubmitPrediction(2, PolicyBets, FewFailureMessages)
  \/ StartRound(1, FewFailureMessages)
  \/ LockRound(1)
  \/ Tick

SpecPolicy == InitFunds /\ [][NextPolicy]_vars

\* ----------------------------------------------------------------- claims
RECURSIVE SumAmounts(_)
\* the sum of the stakes of a set of submitPrediction requests
SumAmounts(ps) ==
  IF ps = {} THEN 0
  ELSE LET p == CHOOSE q \in ps : TRUE
       IN sp[p].amount + SumAmounts(ps \ {p})

OpenRounds ==
  {i \in DOMAIN rounds : rounds[i].status \in {"PENDING", "ACTIVE"}}

ActiveRounds == {i \in DOMAIN rounds : rounds[i].status = "ACTIVE"}

\* C1: at most one round is PENDING or ACTIVE in every reachable state, and
\* once all the concurrent startRound calls have ended, each with success or
\* with the active-round conflict, exactly one round is ACTIVE.
C1_SingleOpenRound ==
  /\ Cardinality(OpenRounds) <= 1
  /\ (\A p \in Starters :
         /\ sr[p].pc = "done"
         /\ sr[p].result \in {Ok, RoundServiceError("ACTIVE_ROUND_EXISTS",
                                                     409)})
       => Cardinality(ActiveRounds) = 1

\* C1: two startRound calls have both returned their round, and both rounds
\* are ACTIVE.
C1_TwoActiveRounds ==
  \E p, q \in Starters :
    /\ p # q
    /\ sr[p].pc = "done" /\ sr[p].result = Ok
    /\ sr[q].pc = "done" /\ sr[q].result = Ok
    /\ {sr[p].dbRoundId, sr[q].dbRoundId} \subseteq ActiveRounds

\* C3: when startRound has returned after its gateway createRound call
\* failed, the round it persisted is CANCELLED, the caller has received the
\* gateway's BlockchainError itself, and startRound called the gateway once.
C3_CreateRoundFailureCancels ==
  \A p \in Starters :
    (sr[p].pc = "done" /\ sr[p].thrown.kind = "BlockchainError") =>
      /\ rounds[sr[p].dbRoundId].status = "CANCELLED"
      /\ sr[p].result = sr[p].thrown
      /\ sr[p].gatewayCalls = 1

\* C3: a startRound call has returned after the gateway gave up on a
\* transient failure, having used all its attempts.
C3_RetriesExhausted ==
  \E p \in Starters :
    /\ sr[p].pc = "done"
    /\ sr[p].thrown = BlockchainError("TRANSIENT", TRUE)
    /\ sr[p].gw.calls = DefaultMaxRetries

PredictionsOf(roundId, userId) ==
  {pr \in predictions : pr.roundId = roundId /\ pr.userId = userId}

\* the ledger entries that debit a user's stake on a round
DebitsOf(roundId, userId) ==
  {i \in DOMAIN transactions :
     /\ transactions[i].roundId = roundId
     /\ transactions[i].userId = userId
     /\ transactions[i].amount < 0}

\* C2: for every round and user, under any interleaving of submitPrediction
\* calls, at most one prediction exists, at most one debit is recorded, and
\* the balance has lost at most the one recorded stake.
C2_OnePredictionOneDebit ==
  \A r \in DOMAIN rounds, u \in Users :
    /\ Cardinality(PredictionsOf(r, u)) <= 1
    /\ Cardinality(DebitsOf(r, u)) <= 1
    /\ users[u].virtualBalance =
         IF DebitsOf(r, u) = {} THEN InitialBalance
         ELSE InitialBalance +
              transactions[CHOOSE i \in DebitsOf(r, u) : TRUE].amount

\* C2: two submits of one user on one round both passed the
\* existing-prediction check; one has succeeded and the other has failed on
\* the unique index.
C2_ConcurrentSubmitsRaced ==
  \E p, q \in Submitters :
    /\ p # q
    /\ sp[p].userId = sp[q].userId /\ sp[p].roundId = sp[q].roundId
    /\ sp[p].pc = "done" /\ sp[p].result = Ok
    /\ sp[q].pc = "done" /\ sp[q].thrown.code = "P2002"

SettledSubmits == {p \in Submitters : sp[p].pc = "done" /\ sp[p].result = Ok}

FailedSubmits ==
  {p \in Submitters :
     sp[p].pc = "done" /\ sp[p].result.kind = "BlockchainError"}

\* C4: when submitPrediction has returned after its gateway placeBet call
\* failed, the caller has the BlockchainError, the prediction it created is
\* gone, and balances, pools and ledger are exactly what the submits that
\* succeeded account for: the failed call has left nothing behind.
C4_PlaceBetFailureRollsBack ==
  /\ \A p \in FailedSubmits :
       /\ sp[p].result = sp[p].thrown
       /\ sp[p].createdPredictionId # Null
       /\ \A pr \in predictions : pr.id # sp[p].createdPredictionId
  /\ Len(transactions) = Cardinality(SettledSubmits)
  /\ \A u \in Users :
       users[u].virtualBalance =
         InitialBalance -
           SumAmounts({p \in SettledSubmits : sp[p].userId = u})
  /\ \A r \in DOMAIN rounds :
       /\ rounds[r].poolUp =
            SumAmounts({p \in SettledSubmits :
                          sp[p].roundId = r /\ sp[p].side = "UP"})
       /\ rounds[r].poolDown =
            SumAmounts({p \in SettledSubmits :
                          sp[p].roundId = r /\ sp[p].side = "DOWN"})

\* C4: a submit has returned the BlockchainError of a bet the remote contract
\* refused on every attempt, next to a submit that succeeded.
C4_PlaceBetFailed ==
  \E p \in FailedSubmits, q \in SettledSubmits :
    /\ sp[p].gw.calls = PlaceBetMaxRetries
    /\ sp[p].result = BlockchainError("TRANSIENT", TRUE)

\* resolveRound call p has returned its round, and no other call has started
SoleResolve(p) ==
  /\ rs[p].pc = "done" /\ rs[p].result = Ok
  /\ \A q \in Resolvers \ {p} : rs[q].pc = "idle"

RoundPredictions(roundId) == {pr \in predictions : pr.roundId = roundId}

\* the side the final price of call p makes win, and the two pools
WinningSide(p) ==
  IF rs[p].finalPrice > rs[p].round.startPrice THEN "UP" ELSE "DOWN"

WinPool(p) ==
  IF WinningSide(p) = "UP" THEN rs[p].round.poolUp
  ELSE rs[p].round.poolDown

LosePool(p) ==
  IF WinningSide(p) = "UP" THEN rs[p].round.poolDown
  ELSE rs[p].round.poolUp

\* call p resolved at a price other than the start price
Decided(p) ==
  SoleResolve(p) /\ rs[p].finalPrice # rs[p].round.startPrice

Paid(pr) == IF pr.payout = Null THEN 0 ELSE pr.payout

RECURSIVE SumOf(_, _)
\* the sum over the predictions prs of the column "amount" or "payout"
SumOf(prs, column) ==
  IF prs = {} THEN 0
  ELSE LET pr == CHOOSE x \in prs : TRUE
       IN (IF column = "amount" THEN pr.amount ELSE Paid(pr))
          + SumOf(prs \ {pr}, column)

\* C5: once an up/down round is resolved at a final price other than its
\* start price with a non-empty winning pool, every winning prediction has
\* outcome true and payout amount + (amount / winPool) * losePool, credited
\* to its owner together with one win and one streak step; every losing
\* prediction has outcome false, payout 0 and its owner's streak is 0.
C5_WinnersPaid ==
  \A p \in Resolvers :
    (Decided(p) /\ WinPool(p) > 0) =>
      \A pr \in RoundPredictions(rs[p].roundId) :
        IF pr.side = WinningSide(p)
        THEN /\ pr.won = "true"
             /\ pr.payout =
                  pr.amount + (pr.amount * LosePool(p)) \div WinPool(p)
             /\ users[pr.userId].virtualBalance =
                  InitialBalance - pr.amount + pr.payout
             /\ users[pr.userId].wins = 1
             /\ users[pr.userId].streak = 1
        ELSE /\ pr.won = "false"
             /\ pr.payout = 0
             /\ users[pr.userId].virtualBalance =
                  InitialBalance - pr.amount
             /\ users[pr.userId].streak = 0

\* C5: A staked 100 UP and B 150 DOWN on a round started at 1.00, the round
\* is resolved at 1.20, and A's prediction carries no outcome and no payout.
C5_WinnerUnpaid ==
  \E p \in Resolvers :
    /\ SoleResolve(p) /\ rs[p].finalPrice = 120
    /\ rounds[rs[p].roundId].status = "RESOLVED"
    /\ \E a, b \in predictions :
         /\ a.userId = "A" /\ a.amount = 100 /\ a.side = "UP"
         /\ b.userId = "B" /\ b.amount = 150 /\ b.side = "DOWN"
         /\ a.won = "null" /\ a.payout = Null
         /\ users["A"].virtualBalance = 900 /\ users["A"].wins = 0

\* C6: for every resolved round with a non-empty winning pool, the winners'
\* payouts sum to the winning stakes plus the losing pool, and what resolve
\* credited equals what the round's submits debited: the balances together
\* hold what they held before the round.
C6_PayoutConservation ==
  \A p \in Resolvers :
    (Decided(p) /\ WinPool(p) > 0) =>
      LET winners == {pr \in RoundPredictions(rs[p].roundId) :
                        pr.side = WinningSide(p)}
      IN /\ SumOf(winners, "payout") = SumOf(winners, "amount") + LosePool(p)
         /\ SumOf(RoundPredictions(rs[p].roundId), "payout") =
              SumOf(RoundPredictions(rs[p].roundId), "amount")

\* C7: once a round is resolved at its start price, every prediction has
\* payout equal to its stake and outcome null, every owner's balance is back
\* at its value before the stake, wins and streaks are unchanged, and the
\* round is RESOLVED.
C7_TieRefunds ==
  \A p \in Resolvers :
    (SoleResolve(p) /\ rs[p].finalPrice = rs[p].round.startPrice) =>
      /\ rounds[rs[p].roundId].status = "RESOLVED"
      /\ \A pr \in RoundPredictions(rs[p].roundId) :
           /\ pr.payout = pr.amount
           /\ pr.won = "null"
           /\ users[pr.userId].virtualBalance = InitialBalance
           /\ users[pr.userId].wins = 0
           /\ users[pr.userId].streak = 0

\* C8: once a round is resolved at a final price other than its start price
\* with every stake on the losing side, no balance has changed, every
\* prediction has outcome false, and the round is RESOLVED.
C8_ZeroWinner ==
  \A p \in Resolvers :
    (Decided(p) /\ WinPool(p) = 0) =>
      /\ rounds[rs[p].roundId].status = "RESOLVED"
      /\ \A pr \in RoundPredictions(rs[p].roundId) :
           /\ users[pr.userId].virtualBalance = InitialBalance - pr.amount
           /\ pr.won = "false"

\* C9: a resolveRound call that finds its round RESOLVED fails in that very
\* step and writes nothing: no prediction, no user, no round, no ledger entry.
C9_ResolvedRejected ==
  [][\A p \in Resolvers :
       (/\ rs[p].pc = "idle"
        /\ rs'[p].pc # "idle"
        /\ rs'[p].roundId \in DOMAIN rounds
        /\ rounds[rs'[p].roundId].status = "RESOLVED")
       => /\ rs'[p].pc = "done"
          /\ rs'[p].result.kind = "ResolutionServiceError"
          /\ db' = db]_vars

\* C9: a resolveRound call with a valid price other than the recorded end
\* price has been rejected as already resolved.
C9_SecondResolveRejected ==
  \E p \in Resolvers :
    /\ rs[p].pc = "done"
    /\ rs[p].result = ResolutionServiceError("ALREADY_RESOLVED", 400)
    /\ rounds[rs[p].roundId].endPrice # rs[p].finalPrice
    /\ RoundPredictions(rs[p].roundId) # {}

\* resolveRound call p got past its checks and has returned
Resolved(p) ==
  /\ rs[p].pc = "done"
  /\ rs[p].result.code \notin {"INVALID_FINAL_PRICE", "ROUND_NOT_FOUND",
                               "ALREADY_RESOLVED", "INVALID_ROUND_STATUS"}

LegalTransitions ==
  {<< "PENDING", "ACTIVE" >>, << "ACTIVE", "LOCKED" >>,
   << "ACTIVE", "RESOLVED" >>, << "LOCKED", "RESOLVED" >>,
   << "PENDING", "CANCELLED" >>, << "ACTIVE", "CANCELLED" >>,
   << "LOCKED", "CANCELLED" >>}

\* C11: every change of a round's status, by any step of lockRound,
\* cancelRound or resolveRound under any interleaving, is one of
\* PENDING->ACTIVE, ACTIVE->LOCKED, ACTIVE/LOCKED->RESOLVED and
\* PENDING/ACTIVE/LOCKED->CANCELLED; so a RESOLVED or CANCELLED round keeps its
\* status.
C11_TerminalStatuses ==
  [][\A i \in DOMAIN rounds :
       rounds'[i].status # rounds[i].status
         => << rounds[i].status, rounds'[i].status >> \in LegalTransitions]_vars

\* C11: cancelRound and resolveRound have both succeeded on the same round,
\* so the later of the two status writes replaced a terminal status.
C11_CancelledAndResolved ==
  \E p \in Cancellers :
    /\ cr[p].pc = "done" /\ cr[p].result = Ok
    /\ rs[1].pc = "done" /\ rs[1].result = Ok
    /\ rs[1].roundId = cr[p].roundId

\* ------------------------------------------------------------------ pools
\* C12: in every reachable state and for every round, poolUp is the sum of the
\* amounts of the round's UP predictions and poolDown the sum of the amounts
\* of its DOWN predictions (no prediction has been refunded), the states
\* between the creation of a prediction and its debit included.
C12_PoolsMatchPredictions ==
  \A i \in DOMAIN rounds :
    /\ rounds[i].poolUp = PoolOf(RoundPredictions(i), "UP")
    /\ rounds[i].poolDown = PoolOf(RoundPredictions(i), "DOWN")

\* C12: a submitPrediction call has created its prediction and has not yet
\* run its debit transaction; the round's pool does not count the stake.
C12_CreatedBeforeDebit ==
  \E p \in Submitters :
    /\ sp[p].pc \in {"remote", "update", "debit"}
    /\ \E pr \in predictions :
         /\ pr.id = sp[p].createdPredictionId
         /\ rounds[pr.roundId].poolUp
              < PoolOf(RoundPredictions(pr.roundId), "UP")

\* ------------------------------------------------------------ cancelRound
\* the rows transactions' has and transactions has not
NewEntries == SubSeq(transactions', Len(transactions) + 1, Len(transactions'))

\* C13: a cancelRound call that finds its round RESOLVED or CANCELLED ends
\* there with INVALID_ROUND_STATUS and changes no row; a call that finds it
\* PENDING, ACTIVE or LOCKED goes on to its transaction, and that one step
\* sets the round CANCELLED, adds each of the round's predictions' amounts to
\* its owner's balance and appends one ledger entry of that amount per
\* prediction, leaving every other round and table as it was.
C13_CancelRefundsAtomically ==
  [][\A p \in Cancellers :
       /\ (/\ cr[p].pc = "idle"
           /\ cr'[p].pc # "idle"
           /\ cr'[p].roundId \in DOMAIN rounds)
          => IF rounds[cr'[p].roundId].status \in {"RESOLVED", "CANCELLED"}
             THEN /\ cr'[p].pc = "done"
                  /\ cr'[p].result =
                       RoundServiceError("INVALID_ROUND_STATUS", 400)
                  /\ db' = db
             ELSE /\ cr'[p].pc = "refund"
                  /\ db' = db
       /\ (cr[p].pc = "refund" /\ cr'[p].pc # "refund")
          => LET id == cr[p].roundId
                 prs == RoundPredictions(id)
             IN /\ cr'[p].pc = "done" /\ cr'[p].result = Ok
                /\ rounds'[id].status = "CANCELLED"
                /\ \A i \in DOMAIN rounds : i # id => rounds'[i] = rounds[i]
                /\ \A u \in Users :
                     users'[u].virtualBalance =
                       users[u].virtualBalance
                         + SumOf({pr \in prs : pr.userId = u}, "amount")
                /\ Len(NewEntries) = Cardinality(prs)
                /\ \A pr \in prs :
                     Cardinality({i \in DOMAIN NewEntries :
                                    /\ NewEntries[i].userId = pr.userId
                                    /\ NewEntries[i].roundId = id
                                    /\ NewEntries[i].amount = pr.amount}) = 1
                /\ predictions' = predictions]_vars

\* C13: one cancelRound call has cancelled a round with stakes and refunded
\* them, and another call on the same round has been rejected.
C13_CancelledThenRejected ==
  \E p, q \in Cancellers :
    /\ cr[p].pc = "done" /\ cr[p].result = Ok
    /\ cr[p].roundPredictions # << >>
    /\ rounds[cr[p].roundId].status = "CANCELLED"
    /\ cr[q].pc = "done" /\ cr[q].roundId = cr[p].roundId
    /\ cr[q].result = RoundServiceError("INVALID_ROUND_STATUS", 400)

\* ---------------------------------------------------------- gateway retry
\* the attempt budgets the gateway is to keep
StatedBudget == IF gc.operation = "placeBet" THEN 2 ELSE 3

\* every attempt of the call but its last one failed as TRANSIENT
EarlierAllTransient ==
  \A i \in 1 .. (Len(gc.attempts) - 1) : gc.attempts[i] = "TRANSIENT"

LastAttempt == gc.attempts[Len(gc.attempts)]

\* C14: when the first k attempts of a gateway call, k below its budget, have
\* failed as TRANSIENT, only the timeout ends the call before attempt k + 1,
\* and when attempt k + 1 succeeds the call is over and the caller has the
\* success result and no error.
C14_RetryThenSuccess ==
  (Len(gc.attempts) >= 1 /\ EarlierAllTransient) =>
    /\ LastAttempt = "ok" => (gc.pc = "done" /\ gc.result = Ok)
    /\ (/\ LastAttempt = "TRANSIENT"
        /\ Len(gc.attempts) < StatedBudget
        /\ gc.pc = "done")
       => gc.result = BlockchainError("TIMEOUT", FALSE)

\* C14: createRound failed twice as TRANSIENT, succeeded on its third attempt
\* within the timeout, and returned the result.
C14_ThirdAttemptSucceeded ==
  /\ gc.operation = "createRound"
  /\ gc.attempts = << "TRANSIENT", "TRANSIENT", "ok" >>
  /\ gc.pc = "done" /\ gc.result = Ok /\ ~gc.late

\* C15: only an attempt that failed as TRANSIENT, the one retryable type, is
\* followed by another attempt; a call whose first attempt fails as
\* INSUFFICIENT_FUNDS, CONTRACT_ERROR, VALIDATION or UNKNOWN is over after that
\* one attempt and the caller has that error, not retryable.
C15_FastFail ==
  /\ EarlierAllTransient
  /\ (/\ Len(gc.attempts) >= 1
      /\ gc.attempts[1] \in {"INSUFFICIENT_FUNDS", "CONTRACT_ERROR",
                             "VALIDATION", "UNKNOWN"})
     => /\ gc.pc = "done"
        /\ Len(gc.attempts) = 1
        /\ gc.gw.calls = 1
        /\ gc.result = BlockchainError(gc.attempts[1], FALSE)

\* C15: a call has failed with INSUFFICIENT_FUNDS on its first and only
\* attempt.
C15_InsufficientFundsOnce ==
  /\ gc.pc = "done"
  /\ gc.attempts = << "INSUFFICIENT_FUNDS" >>
  /\ gc.result = BlockchainError("INSUFFICIENT_FUNDS", FALSE)

\* C16: a gateway call makes at most 3 attempts for createRound and
\* resolveRound and at most 2 for placeBet, and when every attempt of the
\* budget has failed as retryable the call is over and has failed with the
\* error of the last attempt.
C16_AttemptBudget ==
  /\ Len(gc.attempts) <= StatedBudget
  /\ gc.gw.calls = Len(gc.attempts)
  /\ (/\ Len(gc.attempts) = StatedBudget
      /\ \A i \in DOMAIN gc.attempts : gc.attempts[i] = "TRANSIENT")
     => /\ gc.pc = "done"
        /\ gc.result = BlockchainError("TRANSIENT", TRUE)
        /\ gc.result = gc.gw.lastError

\* C16: placeBet has used up its budget of two attempts and failed.
C16_PlaceBetBudgetUsed ==
  /\ gc.operation = "placeBet"
  /\ gc.pc = "done"
  /\ gc.attempts = << "TRANSIENT", "TRANSIENT" >>
  /\ gc.result = BlockchainError("TRANSIENT", TRUE)

\* C17: a gateway call during whose last attempt the deadline passed ends
\* with a TIMEOUT error: it returns neither the result nor the TRANSIENT
\* error of the attempt that finished late.
C17_TimeoutSupersedes ==
  (gc.pc = "done" /\ gc.late) => gc.result = BlockchainError("TIMEOUT", FALSE)

\* C17: the deadline passed during the attempt in flight, and the call has
\* returned that attempt's result.
C17_LateResultReturned ==
  /\ gc.pc = "done" /\ gc.late
  /\ LastAttempt = "ok"
  /\ gc.result = Ok

\* ------------------------------------------------------------- startRound
\* the input of startRound call record s is one the validation accepts
Validated(s) ==
  /\ s.mode = "UP_DOWN"
  /\ s.startPrice > 0
  /\ s.durationMinutes > 0 /\ s.durationMinutes <= 1440

\* the step in which startRound call p is made: its validation and its query
Called(p) == sr[p].pc = "idle" /\ sr'[p].pc # "idle" /\ Validated(sr'[p])

\* C18: with remote integration enabled and every remote call answered
\* successfully, a startRound call with a supported mode, startPrice > 0 and
\* 0 < durationMinutes <= 1440 succeeds and leaves its round ACTIVE exactly
\* when no round was PENDING or ACTIVE at the time it was called: a call made
\* while a round is PENDING or ACTIVE goes no further, and a call that has
\* returned after creating round 1, hence called when no round existed, has
\* succeeded with round 1 ACTIVE.
C18_StartSucceedsIffNoOpenRound ==
  /\ [](\A p \in Starters :
          (/\ sr[p].pc = "done" /\ Validated(sr[p])
           /\ sorobanInitialized
           /\ sr[p].gw.lastError = NoError
           /\ sr[p].dbRoundId = 1)
          => (sr[p].result = Ok /\ rounds[1].status = "ACTIVE"))
  /\ [][\A p \in Starters :
          (Called(p) /\ sorobanInitialized /\ OpenRounds # {})
            => (sr'[p].pc = "done" /\ sr'[p].result # Ok)]_vars

\* C18: startRound("UP_DOWN", 1.00, 900), the first call to create a round,
\* has failed without a remote call and left round 1 CANCELLED.
C18_ValidDurationRejected ==
  \E p \in Starters :
    /\ sr[p].pc = "done" /\ Validated(sr[p]) /\ sorobanInitialized
    /\ sr[p].durationMinutes = 900
    /\ sr[p].dbRoundId = 1
    /\ sr[p].gw.calls = 0
    /\ sr[p].result = BlockchainError("VALIDATION", FALSE)
    /\ rounds[1].status = "CANCELLED"

\* C19: a startRound call with an input the validation accepts, made while a
\* round is PENDING or ACTIVE, ends there with ACTIVE_ROUND_EXISTS (409),
\* without a gateway call and with no row changed.
C19_OpenRoundConflict ==
  [][\A p \in Starters :
       (Called(p) /\ OpenRounds # {})
         => /\ sr'[p].pc = "done"
            /\ sr'[p].result = RoundServiceError("ACTIVE_ROUND_EXISTS", 409)
            /\ sr'[p].gatewayCalls = 0
            /\ db' = db]_vars

\* C19: two rounds are PENDING at once: the second was persisted while the
\* first was PENDING.
C19_TwoPendingRounds ==
  Cardinality({i \in DOMAIN rounds : rounds[i].status = "PENDING"}) = 2

\* ------------------------------------------------------- submitPrediction
\* the step in which submitPrediction call p returns successfully
Submitted(p) == sp[p].pc # "done" /\ sp'[p].pc = "done" /\ sp'[p].result = Ok

RoundClosedTo(s) ==
  \/ s.roundId \notin DOMAIN rounds
  \/ rounds[s.roundId].status # "ACTIVE"
  \/ now > rounds[s.roundId].endTime

\* C21: a submitPrediction call made when its round does not exist, is not
\* ACTIVE, or has passed its endTime (whatever its status) ends there with
\* ROUND_NOT_FOUND, ROUND_NOT_ACTIVE or ROUND_ENDED: it creates no
\* prediction, makes no gateway call and changes no row.
C21_ClosedRoundRejects ==
  [][(sp[1].pc = "idle" /\ sp'[1].pc # "idle" /\ RoundClosedTo(sp'[1]))
       => /\ sp'[1].pc = "done"
          /\ sp'[1].result \in
               {PredictionServiceError("ROUND_NOT_FOUND", 404),
                PredictionServiceError("ROUND_NOT_ACTIVE", 400),
                PredictionServiceError("ROUND_ENDED", 400)}
          /\ sp'[1].createdPredictionId = Null
          /\ sp'[1].gatewayCalls = 0
          /\ db' = db]_vars

\* C21: a submitPrediction call has been rejected as ROUND_ENDED on a round
\* that is past its endTime and still ACTIVE, and nothing was recorded.
C21_RejectedBeforeSweep ==
  /\ sp[1].pc = "done"
  /\ sp[1].result = PredictionServiceError("ROUND_ENDED", 400)
  /\ rounds[1].status = "ACTIVE"
  /\ now > rounds[1].endTime
  /\ predictions = {}
  /\ transactions = << >>

\* the step in which submitPrediction call p reads its user's balance
BalanceChecked(p) == sp[p].pc = "findUser" /\ sp'[p].pc # "findUser"

\* C22: a submitPrediction call whose amount is above the balance it reads
\* ends there with INSUFFICIENT_BALANCE (400) carrying the amount required
\* and the balance available, without a prediction, a gateway call or any
\* change of a row; a call whose amount equals the balance passes the check
\* and goes on to create its prediction.
C22_BalanceCheck ==
  [][\A p \in Submitters :
       BalanceChecked(p) =>
         LET available == users[sp[p].userId].virtualBalance IN
         /\ sp[p].amount > available
              => /\ sp'[p].pc = "done"
                 /\ sp'[p].result.kind = "PredictionServiceError"
                 /\ sp'[p].result.code = "INSUFFICIENT_BALANCE"
                 /\ sp'[p].result.statusCode = 400
                 /\ sp'[p].result.required = sp[p].amount
                 /\ sp'[p].result.available = available
                 /\ sp'[p].createdPredictionId = Null
                 /\ sp'[p].gatewayCalls = 0
                 /\ db' = db
         /\ sp[p].amount = available => sp'[p].pc = "create"]_vars

\* C22: B's stake of 151 against a balance of 150 has been rejected with
\* both amounts, and A's stake of the whole balance of 100 has been accepted
\* and debited.
C22_OverRejectedEqualAccepted ==
  \E p, q \in Submitters :
    /\ sp[p].pc = "done"
    /\ sp[p].result = InsufficientBalance(151, 150)
    /\ sp[q].pc = "done" /\ sp[q].result = Ok
    /\ sp[q].amount = 100
    /\ users["A"].virtualBalance = 0
    /\ users["B"].virtualBalance = 150
    /\ \A pr \in predictions : pr.roundId = 2 => pr.userId = "A"

\* submitPrediction call p got past the existing-prediction check and the
\* user check: it has run prisma.prediction.create
ReachedCreate(p) ==
  sp[p].createdPredictionId # Null \/ sp[p].thrown.code = "P2002"

\* C23: when two submitPrediction calls for the same round and user have both
\* passed the existing-prediction check and have both returned, neither
\* through a gateway failure, one has succeeded and the other has failed with
\* PREDICTION_EXISTS (409).
C23_ConcurrentDuplicateConflict ==
  \A p, q \in Submitters :
    (/\ p # q
     /\ sp[p].userId = sp[q].userId /\ sp[p].roundId = sp[q].roundId
     /\ sp[p].pc = "done" /\ sp[q].pc = "done"
     /\ ReachedCreate(p) /\ ReachedCreate(q)
     /\ sp[p].result.kind # "BlockchainError"
     /\ sp[q].result.kind # "BlockchainError")
    => \/ /\ sp[p].result = Ok
          /\ sp[q].result = PredictionServiceError("PREDICTION_EXISTS", 409)
       \/ /\ sp[q].result = Ok
          /\ sp[p].result = PredictionServiceError("PREDICTION_EXISTS", 409)

\* C23: of two concurrent submits of one user on one round, one has
\* succeeded and the one that lost on the unique index has failed with
\* PREDICTION_FAILED (500).
C23_LoserGotGenericFailure ==
  \E p, q \in Submitters :
    /\ p # q
    /\ sp[p].userId = sp[q].userId /\ sp[p].roundId = sp[q].roundId
    /\ sp[p].pc = "done" /\ sp[p].result = Ok
    /\ sp[q].pc = "done"
    /\ sp[q].result = PredictionServiceError("PREDICTION_FAILED", 500)

\* C24: when every submit request is authenticated as user A, whatever userId
\* the request bodies carry, every submitPrediction call is made for A, every
\* prediction and every ledger entry is A's, and no other user's balance
\* changes.
C24_AuthenticatedUserOnly ==
  /\ \A p \in Submitters : sp[p].pc # "idle" => sp[p].userId = "A"
  /\ \A pr \in predictions : pr.userId = "A"
  /\ \A i \in DOMAIN transactions : transactions[i].userId = "A"
  /\ \A u \in Users \ {"A"} : users[u].virtualBalance = InitialBalance

\* C24: a request authenticated as A with userId B in its body has been
\* accepted: the prediction is B's and B's balance was debited, A's was not.
C24_StakedForAnotherUser ==
  \E p \in Submitters :
    /\ sp[p].pc = "done" /\ sp[p].result = Ok
    /\ sp[p].userId = "B"
    /\ \E pr \in predictions : pr.userId = "B"
    /\ users["B"].virtualBalance = InitialBalance - 100
    /\ users["A"].virtualBalance = InitialBalance

\* -------------------------------------------------------------- connect
\* the connect requests that carried the issued challenge of wallet GA with
\* its valid signature and have been answered
ValidConnects ==
  {p \in Connects :
     /\ cn[p].pc = "done"
     /\ cn[p].walletAddress = "GA"
     /\ cn[p].challenge = "issued"
     /\ cn[p].signature = "signed"}

\* C25: under any interleaving of connect requests carrying the same valid
\* challenge and signature, at most one is answered with a token, and of two
\* such requests answered before the challenge expires one has the token and
\* the other the rejection 'Challenge has already been used'.
C25_ChallengeAcceptedOnce ==
  /\ Cardinality({p \in ValidConnects : cn[p].response.status = 200}) <= 1
  /\ \A p, q \in ValidConnects :
       (p # q /\ now <= IssuedChallenge.expiresAt) =>
         \E w \in {p, q}, l \in {p, q} :
           /\ cn[w].response = Response(200, "token")
           /\ cn[l].response =
                Response(401, "Challenge has already been used")

\* C25: two connect requests with the same challenge and signature have both
\* been answered with a token.
C25_TwoTokensForOneChallenge ==
  \E p, q \in ValidConnects :
    /\ p # q
    /\ cn[p].response = Response(200, "token")
    /\ cn[q].response = Response(200, "token")
    /\ authChallenge.isUsed

\* --------------------------------------------------------- unsupported mode
\* C26: a startRound call with mode LEGENDS, startPrice > 0 and
\* 0 < durationMinutes <= 1440 has failed with LEGENDS_NOT_IMPLEMENTED (501),
\* an error that is not one of the validation errors, without persisting a
\* round and without a gateway call; and no round has mode LEGENDS.
C26_LegendsNotImplemented ==
  /\ \A p \in Starters :
       (/\ sr[p].pc # "idle"
        /\ sr[p].mode = "LEGENDS"
        /\ sr[p].startPrice > 0
        /\ sr[p].durationMinutes > 0 /\ sr[p].durationMinutes <= 1440)
       => /\ sr[p].pc = "done"
          /\ sr[p].result = RoundServiceError("LEGENDS_NOT_IMPLEMENTED", 501)
          /\ sr[p].result.code \notin {"INVALID_START_PRICE",
                                       "INVALID_DURATION"}
          /\ sr[p].dbRoundId = Null
          /\ sr[p].gatewayCalls = 0
  /\ \A i \in DOMAIN rounds : rounds[i].mode # "LEGENDS"

\* C26: startRound("LEGENDS", 1.00, 1) has been answered with
\* LEGENDS_NOT_IMPLEMENTED on a server that holds no round.
C26_LegendsRejected ==
  \E p \in Starters :
    /\ sr[p].pc = "done"
    /\ sr[p].mode = "LEGENDS" /\ sr[p].startPrice = 100
    /\ sr[p].durationMinutes = 1
    /\ sr[p].result = RoundServiceError("LEGENDS_NOT_IMPLEMENTED", 501)
    /\ rounds = << >>

\* ------------------------------------------------------------- end price
\* C27: in every reachable state and for every round, endPrice is set exactly
\* when the round's status is RESOLVED.
C27_EndPriceIffResolved ==
  \A i \in DOMAIN rounds :
    (rounds[i].endPrice # Null) <=> (rounds[i].status = "RESOLVED")

\* C27: a round that resolveRound has resolved, and whose end price is set,
\* is CANCELLED or LOCKED.
C27_EndPriceOnUnresolvedRound ==
  \E i \in DOMAIN rounds :
    /\ rounds[i].endPrice # Null
    /\ rounds[i].status \in {"CANCELLED", "LOCKED"}
    /\ rs[1].pc = "done" /\ rs[1].result = Ok /\ rs[1].roundId = i

\* ------------------------------------------------------------------ sweep
\* the sweep's update of expiredRounds[i] is the step taken
SweepWrote(i) ==
  /\ i \in DOMAIN sw.locks
  /\ sw.locks[i] = "update"
  /\ sw'.locks[i] = "locked"

\* C28: autoLockExpiredRounds attempts to lock every ACTIVE round whose
\* endTime has passed, each independently: when the sweep has returned, the
\* lockRound call of every round it found has run, whatever became of the
\* other calls, and every write of the sweep is to a round that is ACTIVE and
\* whose endTime has passed.
C28_SweepLocksIndependently ==
  /\ [](sw.pc = "done" =>
          \A i \in DOMAIN sw.locks : sw.locks[i] \in {"locked", "failed"})
  /\ [][\A i \in 1 .. 2 :
          SweepWrote(i) =>
            /\ rounds[sw.expiredRounds[i]].status = "ACTIVE"
            /\ rounds[sw.expiredRounds[i]].endTime <= now]_vars

\* C28: the sequential sweep has returned after the lockRound call of round 1
\* failed, and round 2, which it found expired and ACTIVE, is still ACTIVE and
\* was never attempted.
C28_ExpiredRoundLeftActive ==
  /\ sw.pc = "done"
  /\ sw.variant = "sequential"
  /\ sw.expiredRounds = << 1, 2 >>
  /\ sw.locks = << "failed", "skipped" >>
  /\ rounds[2].status = "ACTIVE"
  /\ rounds[2].endTime <= now

\* ------------------------------------------------------ gateway failures
BlockchainErrorTypes ==
  {"TRANSIENT", "INSUFFICIENT_FUNDS", "CONTRACT_ERROR", "VALIDATION",
   "TIMEOUT", "UNKNOWN"}

\* the call is over and no attempt of it succeeded
OperationFailed ==
  /\ gc.pc = "done"
  /\ (gc.attempts = << >> \/ gc.attempts[Len(gc.attempts)] # "ok")

\* C29: every failure of createRound, placeBet, resolveRound or getBalance,
\* whether raised by the argument checks, by the uninitialized gateway or by
\* the remote call, reaches the caller as a BlockchainError with a type and a
\* retryable flag, never as a normal return value.
C29_FailuresAreBlockchainErrors ==
  OperationFailed =>
    /\ gc.result.kind = "BlockchainError"
    /\ gc.result.code \in BlockchainErrorTypes
    /\ gc.result.retryable \in BOOLEAN

\* C29: getBalance, on an initialized gateway and for a valid address, made
\* its two attempts, both failed as TRANSIENT, and the caller was returned 0.
C29_GetBalanceFailureReturnsZero ==
  /\ gc.operation = "getBalance"
  /\ sorobanInitialized
  /\ gc.attempts = << "TRANSIENT", "TRANSIENT" >>
  /\ gc.pc = "done"
  /\ gc.result = ZeroBalance

\* ------------------------------------------------------ debit with creation
\* the stakes of the user's prediction rows
Staked(u) ==
  LET prs == {pr \in predictions : pr.userId = u}
  IN PoolOf(prs, "UP") + PoolOf(prs, "DOWN")

\* C30: a prediction's amount is deducted from its owner's balance atomically
\* with the prediction's creation: in every state another operation can
\* observe, every user's balance is the initial balance less the amounts of
\* the user's prediction rows (no round has been settled or cancelled).
C30_DebitedWithCreation ==
  \A u \in Users : users[u].virtualBalance = InitialBalance - Staked(u)

\* C30: one submitPrediction call has created its prediction row and is
\* waiting for the gateway or for its debit transaction, the owner's balance
\* is still the initial balance, and another submitPrediction call has run
\* from start to end meanwhile.
C30_RowSeenBeforeDebit ==
  \E p, q \in Submitters :
    /\ p # q
    /\ sp[p].pc \in {"remote", "update", "debit"}
    /\ \E pr \in predictions :
         /\ pr.id = sp[p].createdPredictionId
         /\ pr.userId = sp[p].userId
         /\ users[pr.userId].virtualBalance = InitialBalance
    /\ sp[q].pc = "done"
    /\ sp[q].result = Ok
    /\ sp[q].createdPredictionId # Null
    /\ sp[q].createdPredictionId > sp[p].createdPredictionId

\* ------------------------------------------------- settlement atomicity
\* resolveUpDownRound has written the prediction's outcome or payout
Settled(pr) == pr.won # "null" \/ pr.payout # Null

\* C31: settlement is all-or-nothing: in no state are some predictions of a
\* round settled while others of the same round are not.
C31_NoPartialSettlement ==
  \A i \in DOMAIN rounds :
    \A a, b \in RoundPredictions(i) : Settled(a) <=> Settled(b)

\* C31: resolveRound has written the outcome of some prediction; no run of
\* resolveRound on a round created by startRound reaches such a state.
C31_SomePredictionSettled ==
  \E pr \in predictions : Settled(pr)

\* ------------------------------------------------------ concurrent resolves
\* the resolveRound calls p and q both read the same round as ACTIVE or
\* LOCKED, at the same final price, and both have returned it
BothResolved(p, q) ==
  /\ p # q
  /\ rs[p].pc = "done" /\ rs[p].result = Ok
  /\ rs[q].pc = "done" /\ rs[q].result = Ok
  /\ rs[p].roundId = rs[q].roundId
  /\ rs[p].finalPrice = rs[q].finalPrice

\* C32: when two resolve calls on the same round have both read it as ACTIVE
\* or LOCKED and both have returned, every prediction of the round (the final
\* price being the start price, or the winning pool not empty) has its outcome
\* and payout set, and its owner's balance holds the payout at most once.
C32_SettledOnceUnderRace ==
  \A p, q \in Resolvers :
    (/\ BothResolved(p, q)
     /\ (rs[p].finalPrice = rs[p].round.startPrice \/ WinPool(p) > 0))
    => \A pr \in RoundPredictions(rs[p].roundId) :
         /\ Settled(pr)
         /\ users[pr.userId].virtualBalance
              <= InitialBalance - pr.amount + Paid(pr)

\* C32: two resolve calls at 1.20 on round 1, which started at 1.00 with
\* stakes of 100 UP and 150 DOWN, both read it before either marked it
\* RESOLVED and both returned; the winning prediction has no outcome.
C32_BothResolvedNoneSettled ==
  \E p, q \in Resolvers :
    /\ BothResolved(p, q)
    /\ rs[p].finalPrice = 120
    /\ rs[p].round.status = "ACTIVE" /\ rs[q].round.status = "ACTIVE"
    /\ rounds[rs[p].roundId].status = "RESOLVED"
    /\ \E a, b \in RoundPredictions(rs[p].roundId) :
         /\ a.side = "UP" /\ a.amount = 100 /\ b.side = "DOWN"
         /\ b.amount = 150
         /\ ~Settled(a)

\* --------------------------------------------------- cancel beside submit
\* no submitPrediction, cancelRound or lockRound request is in flight
Quiescent ==
  /\ \A p \in Submitters : sp[p].pc \in {"idle", "done"}
  /\ \A p \in Cancellers : cr[p].pc \in {"idle", "done"}
  /\ \A p \in Lockers : lk[p].pc \in {"idle", "done"}

\* C33: once round 1, on which the users staked from their initial balance,
\* is CANCELLED and cancelRound and every submit in flight have completed,
\* every user's balance is the initial balance again: each stake on the round
\* was refunded exactly once and nothing else was refunded.
C33_CancelRestoresBalances ==
  (rounds[1].status = "CANCELLED" /\ Quiescent) =>
    \A u \in Users : users[u].virtualBalance = InitialBalance

\* C33: cancelRound read round 1 with the row of a submit whose placeBet was
\* still running and refunded it; the bet then failed and the row was
\* deleted. The round is CANCELLED, nothing is in flight, no prediction is
\* left and the user holds more than the initial balance.
C33_RefundWithoutDebit ==
  /\ rounds[1].status = "CANCELLED"
  /\ Quiescent
  /\ cr[1].result = Ok
  /\ Len(cr[1].roundPredictions) = 1
  /\ sp[1].result.kind = "BlockchainError"
  /\ predictions = {}
  /\ users[sp[1].userId].virtualBalance = InitialBalance + sp[1].amount

\* C34: no stake is committed for a round that has left ACTIVE: a step taken
\* while a round is LOCKED, RESOLVED or CANCELLED adds no prediction to the
\* round and leaves its pools as they are.
C34_NoStakeOnClosedRound ==
  [][\A i \in DOMAIN rounds :
       rounds[i].status # "ACTIVE" =>
         /\ {pr \in predictions' : pr.roundId = i} \subseteq
              RoundPredictions(i)
         /\ rounds'[i].poolUp = rounds[i].poolUp
         /\ rounds'[i].poolDown = rounds[i].poolDown]_vars

\* C34: cancelRound read round 1 without predictions and cancelled it, and
\* the submit that had checked the round before has since created its
\* prediction, debited the stake and raised the pool of the CANCELLED round.
C34_StakeOnCancelledRound ==
  /\ rounds[1].status = "CANCELLED"
  /\ cr[1].result = Ok
  /\ cr[1].roundPredictions = << >>
  /\ sp[1].pc = "done" /\ sp[1].result = Ok
  /\ rounds[1].poolUp = sp[1].amount
  /\ users[sp[1].userId].virtualBalance = InitialBalance - sp[1].amount
  /\ \E pr \in predictions : pr.roundId = 1 /\ pr.userId = sp[1].userId

\* --------------------------------------------------- cancel beside resolve
\* cancelRound call p and resolveRound call q both returned success for the
\* same round
CancelledAndResolvedBy(p, q) ==
  /\ cr[p].pc = "done" /\ cr[p].result = Ok
  /\ rs[q].pc = "done" /\ rs[q].result = Ok
  /\ cr[p].roundId = rs[q].roundId

C36_BalancesNonNegative ==
  \A u \in Users : users[u].virtualBalance >= 0

\* C36: A held 100; two submits of A, 100 on round 2 and 100 on round 3, both
\* passed the balance check before either debit and both returned success:
\* A's balance is -100.
C36_Overdrawn ==
  \E p, q \in Submitters :
    /\ p # q
    /\ sp[p].pc = "done" /\ sp[p].result = Ok /\ sp[p].roundId = 2
    /\ sp[q].pc = "done" /\ sp[q].result = Ok /\ sp[q].roundId = 3
    /\ sp[p].userId = "A" /\ sp[q].userId = "A"
    /\ users["A"].virtualBalance = 0 - 100

\* ------------------------------------------------------ activation
\* C37: a round is ACTIVE only if remote integration was disabled when it was
\* started or the gateway createRound call made for it returned a transaction
\* reference: with the gateway initialized every ACTIVE round carries the
\* reference its startRound call received, after at least one remote attempt;
\* without it no round carries one.
C37_ActiveMeansRemoteCreated ==
  \A i \in DOMAIN rounds :
    rounds[i].status = "ACTIVE" =>
      IF sorobanInitialized
      THEN /\ rounds[i].sorobanRoundId # Null
           /\ \E p \in Starters :
                /\ sr[p].dbRoundId = i
                /\ sr[p].blockchainTxHash = rounds[i].sorobanRoundId
                /\ sr[p].gw.calls >= 1
                /\ sr[p].thrown = NoError
      ELSE rounds[i].sorobanRoundId = Null

\* C37: with the gateway initialized, a startRound call whose first remote
\* attempt failed and whose second succeeded has activated its round with the
\* reference returned, while another call's round, whose remote creation
\* failed, is CANCELLED.
C37_ActivatedAfterRetry ==
  \E p, q \in Starters :
    /\ sorobanInitialized
    /\ sr[p].pc = "done" /\ sr[p].result = Ok
    /\ sr[p].gw.calls = 2
    /\ rounds[sr[p].dbRoundId].status = "ACTIVE"
    /\ rounds[sr[p].dbRoundId].sorobanRoundId = sr[p].blockchainTxHash
    /\ sr[q].pc = "done" /\ sr[q].thrown.kind = "BlockchainError"
    /\ rounds[sr[q].dbRoundId].status = "CANCELLED"

\* ------------------------------------------------------------ termination
\* C38: every startRound call that has persisted its round eventually
\* returns, and every PENDING round eventually is ACTIVE or CANCELLED, under
\* fair scheduling of the call's continuations and with every remote attempt
\* answered.
C38_PendingRoundLeaves ==
  /\ \A p \in {1, 2} :
       (sr[p].dbRoundId # Null) ~> (sr[p].pc = "done")
  /\ \A i \in {1, 2} :
       (i \in DOMAIN rounds /\ rounds[i].status = "PENDING")
         ~> (i \in DOMAIN rounds /\
             rounds[i].status \in {"ACTIVE", "CANCELLED"})

\* C38: a startRound call has returned the gateway's error after three
\* transient failures and its round is CANCELLED, and the other call has
\* returned its round ACTIVE.
C38_BothCallsReturned ==
  \E p, q \in {1, 2} :
    /\ sr[p].pc = "done"
    /\ sr[p].gw.calls = DefaultMaxRetries
    /\ sr[p].result = BlockchainError("TRANSIENT", TRUE)
    /\ rounds[sr[p].dbRoundId].status = "CANCELLED"
    /\ sr[q].pc = "done" /\ sr[q].result = Ok
    /\ rounds[sr[q].dbRoundId].status = "ACTIVE"
    /\ \A i \in DOMAIN rounds : rounds[i].status # "PENDING"

\* --------------------------------------------------------- classification
NetworkLike(msg) ==
  Includes(msg, {"timeout", "econnrefused", "enotfound", "network"})

FundsLike(msg) == Includes(msg, {"insufficient", "balance", "funds"})

ContractLike(msg) == Includes(msg, {"alreadybet", "already", "contract"})

\* the first type, in the stated order, whose predicate the message matches,
\* `validationText` being the predicate of VALIDATION
FirstMatch(msg, validationText) ==
  IF NetworkLike(msg) THEN "TRANSIENT"
  ELSE IF FundsLike(msg) THEN "INSUFFICIENT_FUNDS"
  ELSE IF ContractLike(msg) THEN "CONTRACT_ERROR"
  ELSE IF Includes(msg, validationText) THEN "VALIDATION"
  ELSE "UNKNOWN"

\* the error classifyError last returned is the first match for the message
\* it was given, retryable exactly when it is TRANSIENT
ClassifiedBy(validationText) ==
  gc.gw.lastError # NoError =>
    /\ gc.gw.lastError.kind = "BlockchainError"
    /\ gc.gw.lastError.code = FirstMatch(gc.message, validationText)
    /\ gc.gw.lastError.retryable <=> (gc.gw.lastError.code = "TRANSIENT")

\* C39: classification is an ordered first-match list over the failure
\* message: network/timeout-like text gives TRANSIENT, otherwise
\* balance/funds-like text INSUFFICIENT_FUNDS, otherwise already/contract-like
\* text CONTRACT_ERROR, otherwise "invalid" or "validation" VALIDATION,
\* otherwise UNKNOWN; the error is retryable iff its type is TRANSIENT.
C39_ClassificationAsStated ==
  ClassifiedBy({"invalid", "validation"})

\* C39, amended: the same ordered list, in which VALIDATION is given to text
\* containing "invalid", "validation" or "parameter".
C39_ClassificationOrdered ==
  ClassifiedBy({"invalid", "validation", "parameter"})

\* C39: a failure whose message matches the funds, contract and validation
\* predicates at once was classified INSUFFICIENT_FUNDS, not retryable, and
\* ended the call after one attempt.
C39_SeveralPredicatesMatched ==
  /\ gc.message = {"balance", "already", "parameter"}
  /\ gc.gw.lastError = BlockchainError("INSUFFICIENT_FUNDS", FALSE)
  /\ gc.pc = "done"
  /\ gc.gw.calls = 1

\* ------------------------------------------------------ propagation policy
\* the codes of startRound's input, mode and existing-round checks
StartRoundLocalCodes ==
  {"INVALID_START_PRICE", "INVALID_DURATION", "LEGENDS_NOT_IMPLEMENTED",
   "ACTIVE_ROUND_EXISTS"}

\* the codes of submitPrediction's round, duplicate, user and balance checks
SubmitLocalCodes ==
  {"ROUND_NOT_FOUND", "ROUND_NOT_ACTIVE", "ROUND_ENDED", "PREDICTION_EXISTS",
   "USER_NOT_FOUND", "INSUFFICIENT_BALANCE"}

\* submitPrediction call p ended on a local check: one of the thrown codes,
\* or the unique index turning the duplicate row down
SubmitFailedLocally(p) ==
  /\ sp[p].pc = "done"
  /\ \/ sp[p].result.code \in SubmitLocalCodes
     \/ sp[p].thrown.kind = "PrismaError"

\* the gateway was not called by a record of a call
NoGatewayCall(call) == call.gatewayCalls = 0 /\ call.gw = GwStart

\* C40: a startRound call that failed its input, mode or existing-round
\* check and a submitPrediction call that failed its round, duplicate, user
\* or balance check made no gateway call; and the debit step of
\* submitPrediction is taken only when the placeBet call, which is made
\* whenever the gateway is initialized and a key was given, has returned,
\* and no gateway step of that call follows it.
C40_LocalFailuresStayLocal ==
  /\ [](\A p \in Starters :
          (sr[p].pc = "done" /\ sr[p].result.code \in StartRoundLocalCodes)
            => NoGatewayCall(sr[p]))
  /\ [](\A p \in Submitters : SubmitFailedLocally(p) => NoGatewayCall(sp[p]))
  /\ [][\A p \in Submitters :
          /\ (sp[p].pc = "debit" /\ users' # users /\ sp'[p].pc = "done")
               => /\ sp[p].gatewayCalls =
                       (IF sorobanInitialized /\ sp[p].userSecretKey # ""
                        THEN 1 ELSE 0)
                  /\ sp[p].gatewayCalls = 1 => sp[p].gw.calls >= 1
          /\ sp[p].pc \in {"debit", "done"}
               => /\ sp'[p].gatewayCalls = sp[p].gatewayCalls
                  /\ sp'[p].gw = sp[p].gw]_vars

\* C40: on a server with the gateway, one submitPrediction call was turned
\* down for its balance without a gateway call, the other was debited after
\* its placeBet call, and a startRound call ended on ACTIVE_ROUND_EXISTS
\* without a gateway call.
C40_LocalFailureBesideDebit ==
  /\ sorobanInitialized
  /\ sp[1].pc = "done" /\ sp[1].result.code = "INSUFFICIENT_BALANCE"
  /\ NoGatewayCall(sp[1])
  /\ sp[2].pc = "done" /\ sp[2].result = Ok /\ sp[2].gatewayCalls = 1
  /\ users["A"].virtualBalance = 0
  /\ sr[1].pc = "done" /\ sr[1].result.code = "ACTIVE_ROUND_EXISTS"
  /\ NoGatewayCall(sr[1])

====
